---- MODULE Spec2Model ----
(***************************************************************************)
(* Model of the retryable-request index of yb/consensus                    *)
(* (src/yb/consensus/retryable_requests.cc): RetryableRequests::Impl with  *)
(* its per-client running table, its replicated-range table (a            *)
(* boost::multi_index container with two ordered_unique indices, by        *)
(* last_id and by min_op_id), the restart-safe clock and the two gauges.   *)
(*                                                                         *)
(* All operations run under the caller's lock, so every public method is   *)
(* one atomic action.  LOG(DFATAL) is modelled as in a release build: the  *)
(* method returns; the variable dfatal remembers that it happened (a debug *)
(* build would have aborted there).                                        *)
(***************************************************************************)
EXTENDS Integers, Sequences, FiniteSets, TLC

VARIABLES
    clients_,       \* Impl::clients_: client id -> ClientRetryableRequests
    now,            \* the value clock_.Now() returns
    running_requests_gauge_,            \* null (NoGauge) or instantiated, with its value
    replicated_request_ranges_gauge_,   \* null (NoGauge) or instantiated, with its value
    ret,            \* the call that has just returned, with what it returned
    notified,       \* the NotifyReplicationFinished calls that call made, in order
    committed,      \* history: the last commit of each (client_id, request_id)
    pending,        \* history: rounds Register deferred and nobody notified yet
    dfatal,         \* a LOG(DFATAL) line has been written
    observed,       \* history: what MinRunningRequestId last returned to a
                    \* caller that keeps it, per client
    emptied,        \* history: since when both tables of a client's record
                    \* have been empty, for the records where they are
    appeared,       \* history: the clients a write handed to Register or
                    \* Bootstrap named, and no eviction since
    watched,        \* history: the log index of a committed entry that is
                    \* followed, 0 while none is
    seen            \* history: what each NotifyReplicationFinished of that
                    \* call found, in order

vars == <<clients_, now, running_requests_gauge_, replicated_request_ranges_gauge_,
          ret, notified, committed, pending, dfatal, observed, emptied, appeared,
          watched, seen>>

----------------------------------------------------------------------------
(* Bounds of the model. *)

MaxRequestId == 2       \* request ids are 1..MaxRequestId, watermarks 0..MaxRequestId
MaxTime == 3            \* the clock runs from 1 to MaxTime
MaxOpIndex == 2         \* log indexes are 1..MaxOpIndex
MaxRounds == 2          \* at most this many deferred rounds are outstanding
MaxRunning == 1         \* at most this many requests are running at a time
MaxRetriedId == 1       \* request ids of the clients that retry
MaxRetriedOps == 2      \* log indexes while requests are retried
MaxRetryTime == 2       \* the clock while requests are retried
MaxSharedId == 3        \* two clients on one tablet write requests 1 and MaxSharedId
MaxSharedOps == 3       \* log indexes of two clients on one tablet
MaxSparseId == 4        \* the request id behind the gap
MaxSparseOps == 3       \* log indexes of the client with the gap
MaxSilencedId == 2      \* request ids of the client that falls silent
MaxSilencedOps == 2     \* log indexes before the silence
MaxBusyTime == 1        \* the client that falls silent writes up to this time
MaxRangedId == 3         \* request ids of the client whose ranges join
MaxRangedOps == 3        \* log indexes of that client
MaxRangedTime == 2       \* the clock of that client
MaxReleaseId == 2       \* request ids under a release build
MaxReleaseOps == 2      \* log indexes under a release build
MaxSteadyId == 2        \* the window of request ids of the client that never stops
MaxSteadyOps == 3       \* the window of log indexes under that client
MaxTimedId == 3         \* request ids of the client whose commits are far apart in time
MaxTimedOps == 3        \* log indexes of that client
MaxTimedTime == 3       \* the clock of that client
MaxEnteredId == 2       \* request ids while entry times are back-dated
MaxEnteredOps == 2      \* log indexes while entry times are back-dated
MaxEnteredTime == 3     \* the clock while entry times are back-dated
MaxEnteredBack == 1     \* how far before now an entry time is given
MaxAnyOps == 1          \* log indexes while clients of any id write
MaxAnyTime == 2         \* the clock while clients of any id write
MaxReplayedId == 2      \* request ids while replicates are replayed twice
MaxReplayedOps == 2     \* log indexes while replicates are replayed twice
MaxReplayedTime == 2    \* the clock while replicates are replayed twice
MaxSteadyLag == 1       \* a request of that client commits at most this long after it was registered

(* Flags (gflags, any value can be configured). *)
FLAGS_retryable_request_timeout_secs == 1
FLAGS_retryable_request_range_time_limit_secs == 1

LeaderTerms == {1, 2}

(* ClientId: two 64-bit halves; ClientId::Nil() is the all-zero value. *)
Nil == <<0, 0>>
ClientA == <<0, 1>>
ClientB == <<1, 0>>

(* RestartSafeCoarseTimePoint(): the default-constructed, "unset" time. *)
UnsetTime == 0

NoGauge == [instantiated |-> FALSE, value |-> 0]

----------------------------------------------------------------------------
(* yb::OpId: (term, index), ordered lexicographically. *)

OpIdMax == [term |-> 2147483647, index |-> 2147483647]

OpIdLess(a, b) == a.term < b.term \/ (a.term = b.term /\ a.index < b.index)

(* A minimum that is its first argument. *)
OpIdMin_former(a, b) == a

OpIdMin(a, b) == IF OpIdLess(b, a) THEN b ELSE a

RECURSIVE Sum(_, _)
Sum(f, keys) ==
    IF keys = {} THEN 0
    ELSE LET k == CHOOSE x \in keys : TRUE IN f[k] + Sum(f, keys \ {k})

Min(a, b) == IF b < a THEN b ELSE a

Max(a, b) == IF a < b THEN b ELSE a

----------------------------------------------------------------------------
(* Statuses passed to ReplicationFinished. *)

OkStatus == "OK"
ErrorStatuses == {"Aborted", "TimedOut"}
Statuses == {OkStatus} \cup ErrorStatuses
duplicate_write_status == "AlreadyPresent(Duplicate request)"

----------------------------------------------------------------------------
(* ReplicateMsg and ReplicateData. *)

NoWrite == [client_id1 |-> 0, client_id2 |-> 0, request_id |-> 0,
            min_running_request_id |-> 0]

WriteMsg(client_id, request_id, min_running, op_id) ==
    [has_write |-> TRUE,
     write |-> [client_id1 |-> client_id[1], client_id2 |-> client_id[2],
                request_id |-> request_id, min_running_request_id |-> min_running],
     id |-> op_id]

NonWriteMsg(op_id) == [has_write |-> FALSE, write |-> NoWrite, id |-> op_id]

(* FromMsg that reads the first half of the client id only. *)
FromMsg_halved(replicate_msg) ==
    IF ~replicate_msg.has_write
    THEN [client_id |-> Nil, write |-> NoWrite, op_id |-> replicate_msg.id]
    ELSE [client_id |-> <<replicate_msg.write.client_id1, 0>>,
          write |-> replicate_msg.write,
          op_id |-> replicate_msg.id]

FromMsg(replicate_msg) ==
    IF ~replicate_msg.has_write
    THEN [client_id |-> Nil, write |-> NoWrite, op_id |-> replicate_msg.id]
    ELSE [client_id |-> <<replicate_msg.write.client_id1, replicate_msg.write.client_id2>>,
          write |-> replicate_msg.write,
          op_id |-> replicate_msg.id]

(* Every ReplicateData taken for a write. *)
IsData_always(data) == TRUE

(* ReplicateData::operator bool: !client_id_.IsNil() *)
IsData(data) == data.client_id # Nil

----------------------------------------------------------------------------
(* The records of the two tables. *)

RunningRetryableRequest(request_id, time) ==
    [request_id |-> request_id, time |-> time, duplicate_rounds |-> <<>>]

(* A range constructed without its times. *)
ReplicatedRetryableRequestRange_unstamped(id, op_id, time) ==
    [first_id |-> id, last_id |-> id, min_op_id |-> op_id,
     min_time |-> UnsetTime, max_time |-> UnsetTime]

ReplicatedRetryableRequestRange(id, op_id, time) ==
    [first_id |-> id, last_id |-> id, min_op_id |-> op_id,
     min_time |-> time, max_time |-> time]

(* InsertTime that moves min_time only. *)
InsertTime_min(range, time) ==
    [range EXCEPT !.min_time = Min(range.min_time, time)]

InsertTime(range, time) ==
    [range EXCEPT !.min_time = Min(range.min_time, time),
                  !.max_time = Max(range.max_time, time)]

(* PrepareJoinWithPrev that takes the first id and leaves the times. *)
PrepareJoinWithPrev_first(range, prev) ==
    [range EXCEPT !.first_id = prev.first_id]

PrepareJoinWithPrev(range, prev) ==
    [range EXCEPT !.min_time = Min(range.min_time, prev.min_time),
                  !.max_time = Max(range.max_time, prev.max_time),
                  !.first_id = prev.first_id]

ClientRetryableRequests ==
    [running |-> {}, replicated |-> {}, min_running_request_id |-> 0,
     empty_since |-> UnsetTime]

(* A range time limit of twice the flag. *)
RangeTimeLimit_doubled == 2 * FLAGS_retryable_request_range_time_limit_secs

RangeTimeLimit == FLAGS_retryable_request_range_time_limit_secs

----------------------------------------------------------------------------
(* The replicated table's LastIdIndex (ordered_unique on last_id).  An     *)
(* iterator is the range it points to, or End.                             *)

End == [end |-> TRUE]

(* A lookup that finds no range. *)
lower_bound_end(replicated, id) == End

(* upper_bound in the place of lower_bound. *)
lower_bound_above(replicated, id) ==
    IF \E x \in replicated : x.last_id > id
    THEN CHOOSE x \in replicated :
            /\ x.last_id > id
            /\ \A y \in replicated : y.last_id > id => x.last_id <= y.last_id
    ELSE End

lower_bound(replicated, id) ==
    IF \E x \in replicated : x.last_id >= id
    THEN CHOOSE x \in replicated :
            /\ x.last_id >= id
            /\ \A y \in replicated : y.last_id >= id => x.last_id <= y.last_id
    ELSE End

IsBegin(replicated, it) ==
    IF it = End THEN replicated = {}
    ELSE \A y \in replicated : y.last_id >= it.last_id

(* --it: the range right before it in last_id order. *)
Prev(replicated, it) ==
    LET before == IF it = End THEN replicated
                  ELSE {y \in replicated : y.last_id < it.last_id}
    IN CHOOSE x \in before : \A y \in before : y.last_id <= x.last_id

(* An erase that erases nothing. *)
EraseBefore_none(replicated, it) == replicated

(* erase(begin(), it) *)
EraseBefore(replicated, it) ==
    IF it = End THEN {} ELSE {y \in replicated : y.last_id >= it.last_id}

(* A distance that counts the range the iterator points to as well. *)
DistanceFromBegin_through(replicated, it) ==
    IF it = End THEN Cardinality(replicated)
    ELSE Cardinality({y \in replicated : y.last_id <= it.last_id})

(* std::distance(begin(), it) *)
DistanceFromBegin(replicated, it) ==
    IF it = End THEN Cardinality(replicated)
    ELSE Cardinality({y \in replicated : y.last_id < it.last_id})

(* An assignment through the iterator to a field that is not re-indexed. *)
Assign(replicated, it, new) == (replicated \ {it}) \cup {new}

(* An emplace that is always refused. *)
Emplace_refused(replicated, range) == replicated

(* multi_index emplace: refused when either unique index has the key. *)
Emplace(replicated, range) ==
    IF \E x \in replicated : x.last_id = range.last_id \/ x.min_op_id = range.min_op_id
    THEN replicated
    ELSE replicated \cup {range}

(* multi_index modify: the element is erased when its new key collides. *)
Modify(replicated, it, new) ==
    IF \E x \in replicated \ {it} : x.min_op_id = new.min_op_id
    THEN replicated \ {it}
    ELSE (replicated \ {it}) \cup {new}

----------------------------------------------------------------------------
(* The private helpers of Impl.  Each returns the new table (and what else *)
(* the caller needs) instead of mutating through a pointer.                *)

(* An update that leaves min_op_id as it was. *)
UpdateMinOpId_kept(replicated, request_it, min_op_id) == replicated

UpdateMinOpId(replicated, request_it, min_op_id) ==
    IF OpIdLess(min_op_id, request_it.min_op_id)
    THEN Modify(replicated, request_it, [request_it EXCEPT !.min_op_id = min_op_id])
    ELSE replicated

(* TryJoinRanges which, on joining, forgets to erase request_prev_it.      *)
TryJoinRanges_kept(replicated, request_it, min_op_id) ==
    IF IsBegin(replicated, request_it)
    THEN [joined |-> FALSE, replicated |-> replicated]
    ELSE LET request_prev_it == Prev(replicated, request_it) IN
         IF request_prev_it.last_id + 2 # request_it.first_id
         THEN [joined |-> FALSE, replicated |-> replicated]
         ELSE IF request_it.max_time > request_prev_it.min_time + RangeTimeLimit
         THEN [joined |-> FALSE, replicated |-> replicated]
         ELSE LET min_op == OpIdMin(min_op_id, request_prev_it.min_op_id)
                  joined_it == PrepareJoinWithPrev(request_it, request_prev_it)
              IN [joined |-> TRUE,
                  replicated |-> UpdateMinOpId(Assign(replicated, request_it, joined_it),
                                               joined_it, min_op)]

(* TryJoinRanges without the range time limit. *)
TryJoinRanges_unlimited(replicated, request_it, min_op_id) ==
    IF IsBegin(replicated, request_it)
    THEN [joined |-> FALSE, replicated |-> replicated]
    ELSE LET request_prev_it == Prev(replicated, request_it) IN
         IF request_prev_it.last_id + 2 # request_it.first_id
         THEN [joined |-> FALSE, replicated |-> replicated]
         ELSE LET min_op == OpIdMin(min_op_id, request_prev_it.min_op_id)
                  joined_it == PrepareJoinWithPrev(request_it, request_prev_it)
                  erased == Assign(replicated, request_it, joined_it) \ {request_prev_it}
              IN [joined |-> TRUE,
                  replicated |-> UpdateMinOpId(erased, joined_it, min_op)]

(* request_it has already taken InsertTime(time).  Result: whether the     *)
(* ranges were joined, and the table.                                      *)
TryJoinRanges(replicated, request_it, min_op_id) ==
    IF IsBegin(replicated, request_it)
    THEN [joined |-> FALSE, replicated |-> replicated]
    ELSE LET request_prev_it == Prev(replicated, request_it) IN
         IF request_prev_it.last_id + 2 # request_it.first_id
         THEN [joined |-> FALSE, replicated |-> replicated]
         ELSE IF request_it.max_time > request_prev_it.min_time + RangeTimeLimit
         THEN [joined |-> FALSE, replicated |-> replicated]
         ELSE LET min_op == OpIdMin(min_op_id, request_prev_it.min_op_id)
                  joined_it == PrepareJoinWithPrev(request_it, request_prev_it)
                  erased == Assign(replicated, request_it, joined_it) \ {request_prev_it}
              IN [joined |-> TRUE,
                  replicated |-> UpdateMinOpId(erased, joined_it, min_op)]

(* TryJoinToEndOfRange that grows the previous range wherever it ends. *)
TryJoinToEndOfRange_apart(replicated, request_it, op_id, request_id, time) ==
    IF IsBegin(replicated, request_it)
    THEN [joined |-> FALSE, replicated |-> replicated]
    ELSE LET prev_it == Prev(replicated, request_it) IN
         IF time > prev_it.min_time + RangeTimeLimit
         THEN [joined |-> FALSE, replicated |-> replicated]
         ELSE LET min_op == OpIdMin(prev_it.min_op_id, op_id)
                  grown == [InsertTime(prev_it, time) EXCEPT !.last_id = prev_it.last_id + 1]
              IN [joined |-> TRUE,
                  replicated |-> UpdateMinOpId(Assign(replicated, prev_it, grown),
                                               grown, min_op)]

(* TryJoinToEndOfRange that never grows a range. *)
TryJoinToEndOfRange_never(replicated, request_it, op_id, request_id, time) ==
    [joined |-> FALSE, replicated |-> replicated]

(* TryJoinToEndOfRange without the range time limit. *)
TryJoinToEndOfRange_unlimited(replicated, request_it, op_id, request_id, time) ==
    IF IsBegin(replicated, request_it)
    THEN [joined |-> FALSE, replicated |-> replicated]
    ELSE LET prev_it == Prev(replicated, request_it) IN
         IF prev_it.last_id + 1 # request_id
         THEN [joined |-> FALSE, replicated |-> replicated]
         ELSE LET min_op == OpIdMin(prev_it.min_op_id, op_id)
                  grown == [InsertTime(prev_it, time) EXCEPT !.last_id = prev_it.last_id + 1]
              IN [joined |-> TRUE,
                  replicated |-> UpdateMinOpId(Assign(replicated, prev_it, grown),
                                               grown, min_op)]

(* TryJoinToEndOfRange that measures the limit from max_time. *)
TryJoinToEndOfRange_late(replicated, request_it, op_id, request_id, time) ==
    IF IsBegin(replicated, request_it)
    THEN [joined |-> FALSE, replicated |-> replicated]
    ELSE LET prev_it == Prev(replicated, request_it) IN
         IF prev_it.last_id + 1 # request_id
         THEN [joined |-> FALSE, replicated |-> replicated]
         ELSE IF time > prev_it.max_time + RangeTimeLimit
         THEN [joined |-> FALSE, replicated |-> replicated]
         ELSE LET min_op == OpIdMin(prev_it.min_op_id, op_id)
                  grown == [InsertTime(prev_it, time) EXCEPT !.last_id = prev_it.last_id + 1]
              IN [joined |-> TRUE,
                  replicated |-> UpdateMinOpId(Assign(replicated, prev_it, grown),
                                               grown, min_op)]

TryJoinToEndOfRange(replicated, request_it, op_id, request_id, time) ==
    IF IsBegin(replicated, request_it)
    THEN [joined |-> FALSE, replicated |-> replicated]
    ELSE LET prev_it == Prev(replicated, request_it) IN
         IF prev_it.last_id + 1 # request_id
         THEN [joined |-> FALSE, replicated |-> replicated]
         ELSE IF time > prev_it.min_time + RangeTimeLimit
         THEN [joined |-> FALSE, replicated |-> replicated]
         ELSE LET min_op == OpIdMin(prev_it.min_op_id, op_id)
                  grown == [InsertTime(prev_it, time) EXCEPT !.last_id = prev_it.last_id + 1]
              IN [joined |-> TRUE,
                  replicated |-> UpdateMinOpId(Assign(replicated, prev_it, grown),
                                               grown, min_op)]

(* AddReplicated that does not look whether the id is in a range already. *)
AddReplicated_again(op_id, request_id, time, client) ==
    LET replicated == client.replicated
        request_it == lower_bound(replicated, request_id)
    IN  IF request_it # End /\ request_it.first_id = request_id + 1
        THEN LET min_op == OpIdMin(request_it.min_op_id, op_id)
                 timed_it == InsertTime(request_it, time)
                 timed == Assign(replicated, request_it, timed_it)
                 join == TryJoinRanges(timed, timed_it, min_op)
                 lowered_it == [timed_it EXCEPT !.first_id = timed_it.first_id - 1]
             IN IF join.joined
                THEN [client |-> [client EXCEPT !.replicated = join.replicated],
                      delta |-> -1, dfatal |-> FALSE]
                ELSE [client |-> [client EXCEPT !.replicated =
                                    UpdateMinOpId(Assign(timed, timed_it, lowered_it),
                                                  lowered_it, min_op)],
                      delta |-> 0, dfatal |-> FALSE]
        ELSE LET end_join == TryJoinToEndOfRange(replicated, request_it, op_id,
                                                 request_id, time)
             IN IF end_join.joined
                THEN [client |-> [client EXCEPT !.replicated = end_join.replicated],
                      delta |-> 0, dfatal |-> FALSE]
                ELSE [client |-> [client EXCEPT !.replicated =
                                    Emplace(replicated,
                                            ReplicatedRetryableRequestRange(
                                                request_id, op_id, time))],
                      delta |-> 1, dfatal |-> FALSE]

(* Result: the client record, the change of the ranges gauge, and whether  *)
(* "Request already replicated" was logged.                                *)
AddReplicated(op_id, request_id, time, client) ==
    LET replicated == client.replicated
        request_it == lower_bound(replicated, request_id)
    IN  IF request_it # End /\ request_it.first_id <= request_id
        THEN [client |-> client, delta |-> 0, dfatal |-> TRUE]
        ELSE IF request_it # End /\ request_it.first_id = request_id + 1
        THEN LET min_op == OpIdMin(request_it.min_op_id, op_id)
                 timed_it == InsertTime(request_it, time)
                 timed == Assign(replicated, request_it, timed_it)
                 join == TryJoinRanges(timed, timed_it, min_op)
                 lowered_it == [timed_it EXCEPT !.first_id = timed_it.first_id - 1]
             IN IF join.joined
                THEN [client |-> [client EXCEPT !.replicated = join.replicated],
                      delta |-> -1, dfatal |-> FALSE]
                ELSE [client |-> [client EXCEPT !.replicated =
                                    UpdateMinOpId(Assign(timed, timed_it, lowered_it),
                                                  lowered_it, min_op)],
                      delta |-> 0, dfatal |-> FALSE]
        ELSE LET end_join == TryJoinToEndOfRange(replicated, request_it, op_id,
                                                 request_id, time)
             IN IF end_join.joined
                THEN [client |-> [client EXCEPT !.replicated = end_join.replicated],
                      delta |-> 0, dfatal |-> FALSE]
                ELSE [client |-> [client EXCEPT !.replicated =
                                    Emplace(replicated,
                                            ReplicatedRetryableRequestRange(
                                                request_id, op_id, time))],
                      delta |-> 1, dfatal |-> FALSE]

(* A cleanup that erases below the watermark and leaves the range that     *)
(* holds it untrimmed.                                                     *)
CleanupReplicatedRequests_unraised(new_min_running_request_id, client) ==
    IF new_min_running_request_id > client.min_running_request_id
    THEN LET replicated == client.replicated
             it == lower_bound(replicated, new_min_running_request_id)
         IN [client |-> [client EXCEPT
                            !.replicated = EraseBefore(replicated, it),
                            !.min_running_request_id = new_min_running_request_id],
             erased |-> DistanceFromBegin(replicated, it)]
    ELSE [client |-> client, erased |-> 0]

(* A cleanup that takes the watermark of the message whatever it is. *)
CleanupReplicatedRequests_taken(new_min_running_request_id, client) ==
    [client |-> [client EXCEPT !.min_running_request_id = new_min_running_request_id],
     erased |-> 0]

(* Result: the client record and how many ranges were erased. *)
CleanupReplicatedRequests(new_min_running_request_id, client) ==
    IF new_min_running_request_id > client.min_running_request_id
    THEN LET replicated == client.replicated
             it == lower_bound(replicated, new_min_running_request_id)
             trimmed_it == IF it # End /\ it.first_id < new_min_running_request_id
                           THEN [it EXCEPT !.first_id = new_min_running_request_id]
                           ELSE it
             trimmed == IF it = End THEN replicated ELSE Assign(replicated, it, trimmed_it)
         IN [client |-> [client EXCEPT
                            !.replicated = EraseBefore(trimmed, trimmed_it),
                            !.min_running_request_id = new_min_running_request_id],
             erased |-> DistanceFromBegin(replicated, it)]
    ELSE [client |-> client, erased |-> 0]

(* A subscript that hands out a default record every time. *)
Subscript_fresh(clients, client_id) ==
    [c \in DOMAIN clients \cup {client_id} |->
        IF c = client_id THEN ClientRetryableRequests ELSE clients[c]]

(* clients_[client_id]: std::unordered_map::operator[] inserts a default   *)
(* record when the key is absent.                                          *)
Subscript(clients, client_id) ==
    IF client_id \in DOMAIN clients
    THEN clients
    ELSE [c \in DOMAIN clients \cup {client_id} |->
            IF c = client_id THEN ClientRetryableRequests ELSE clients[c]]

Store(clients, client_id, client) ==
    [c \in DOMAIN clients \cup {client_id} |->
        IF c = client_id THEN client ELSE clients[c]]

(* gauge->IncrementBy(n) behind "if (gauge)". *)
IncrementBy(gauge, n) ==
    IF gauge.instantiated THEN [gauge EXCEPT !.value = @ + n] ELSE gauge

----------------------------------------------------------------------------
(* What the last call was -- the operation, the client and request id of  *)
(* its message, the watermark the message carried and the leader term it   *)
(* was passed -- and what it returned: the result, the watermark and the   *)
(* op-id that came with it.                                                *)

NoOpId == [term |-> 0, index |-> 0]

Ret(op, client_id, request_id, result, min_running, op_id) ==
    [op |-> op, client_id |-> client_id, request_id |-> request_id,
     min_running_request_id |-> 0, leader_term |-> 0,
     result |-> result, min_running |-> min_running, op_id |-> op_id,
     entry_time |-> UnsetTime, sent |-> Nil]

Carrying(returned, data) ==
    [returned EXCEPT !.min_running_request_id = data.write.min_running_request_id]

TotalRunning(clients) ==
    Sum([c \in DOMAIN clients |-> Cardinality(clients[c].running)], DOMAIN clients)

(* No call is in progress: the caller holds the lock and may make one. *)
Idle == Ret("idle", Nil, 0, "void", 0, NoOpId)

Callable == ret.op \in {"Impl", "idle"}

(* The round handed to Register: a handle no queued round has. *)
FreeRounds == (1 .. Len(pending) + 1) \ {pending[i].round : i \in DOMAIN pending}

FreshRound == CHOOSE r \in FreeRounds : \A q \in FreeRounds : r <= q

(* A lookup that never finds the entry. *)
Running_none(client, request_id) == {}

Running(client, request_id) == {e \in client.running : e.request_id = request_id}

(* The history of emptiness after a call that leaves the records clients: *)
(* a record whose two tables are empty has been so since the call that     *)
(* emptied it, or created it empty.                                        *)
EmptiedAfter(clients) ==
    LET empty == {c \in DOMAIN clients :
                    clients[c].running = {} /\ clients[c].replicated = {}}
    IN [c \in empty |-> IF c \in DOMAIN emptied THEN emptied[c] ELSE now]

(* The clients that have appeared, after a call that returned ret'. *)
AppearedAfter ==
    LET named == IF ret'.op \in {"Register", "Bootstrap"} /\ ret'.client_id # Nil
                 THEN {ret'.client_id} ELSE {}
    IN (appeared \ (DOMAIN clients_ \ DOMAIN clients_')) \cup named

Track ==
    /\ emptied' = EmptiedAfter(clients_')
    /\ appeared' = AppearedAfter
    /\ watched' = watched

----------------------------------------------------------------------------
Init ==
    /\ clients_ = << >>
    /\ now = 1
    /\ running_requests_gauge_ = NoGauge
    /\ replicated_request_ranges_gauge_ = NoGauge
    /\ ret = Ret("Impl", Nil, 0, "void", 0, NoOpId)
    /\ notified = << >>
    /\ seen = << >>
    /\ committed = {}
    /\ pending = << >>
    /\ dfatal = FALSE
    /\ observed = << >>
    /\ emptied = << >>
    /\ appeared = {}
    /\ watched = 0

(* Register as a function of the client records: the records afterwards,  *)
(* the result (with the watermark an Expired status carries), how many     *)
(* ranges the watermark erased, and whether the round was queued.          *)
(* entry_time is the time after "if (entry_time == RestartSafeCoarseTime-  *)
(* Point()) entry_time = clock_.Now()".                                    *)
RegisterImpl(clients, replicate_msg, entry_time, round) ==
    LET data == FromMsg(replicate_msg)
        client_id == data.client_id
        request_id == data.write.request_id
        created == Subscript(clients, client_id)
        cleanup == CleanupReplicatedRequests(data.write.min_running_request_id,
                                             created[client_id])
        client == cleanup.client
        cleaned == Store(created, client_id, client)
        it == lower_bound(client.replicated, request_id)
        existing == Running(client, request_id)
        e == CHOOSE x \in existing : TRUE
        queued == [e EXCEPT !.duplicate_rounds = Append(@, round)]
        refused == [clients |-> cleaned, result |-> "Expired",
                    min_running |-> client.min_running_request_id,
                    erased |-> cleanup.erased, queued |-> FALSE]
    IN  IF ~IsData(data)
        THEN [clients |-> clients, result |-> "true", min_running |-> 0,
              erased |-> 0, queued |-> FALSE]
        ELSE IF request_id < client.min_running_request_id
        THEN refused
        ELSE IF it # End /\ it.first_id <= request_id
        THEN [refused EXCEPT !.result = "AlreadyPresent", !.min_running = 0]
        ELSE IF existing # {}
        THEN [refused EXCEPT
                !.clients = Store(cleaned, client_id,
                                  [client EXCEPT !.running = (@ \ {e}) \cup {queued}]),
                !.result = "false", !.min_running = 0, !.queued = TRUE]
        ELSE [refused EXCEPT
                !.clients = Store(cleaned, client_id,
                                  [client EXCEPT !.running = @ \cup
                                     {RunningRetryableRequest(request_id, entry_time)}]),
                !.result = "true", !.min_running = 0]

(* Result<bool> Register(round, entry_time), round->replicate_msg() = replicate_msg *)
(* An entry time taken as given, the unset value included. *)
EntryTime_given(entry_time, clock_now) == entry_time

(* if (entry_time == RestartSafeCoarseTimePoint()) entry_time = clock_.Now() *)
EntryTime(entry_time, clock_now) ==
    IF entry_time = UnsetTime THEN clock_now ELSE entry_time

RegisterCall(replicate_msg, entry_time_arg) ==
    LET data == FromMsg(replicate_msg)
        entry_time == EntryTime(entry_time_arg, now)
        done == RegisterImpl(clients_, replicate_msg, entry_time, FreshRound)
        admitted == IsData(data) /\ done.result = "true"
    IN  /\ clients_' = done.clients
        /\ ret' = [IF IsData(data)
                   THEN Carrying(Ret("Register", data.client_id, data.write.request_id,
                                     done.result, done.min_running, NoOpId), data)
                   ELSE Ret("Register", data.client_id, 0, "true", 0, NoOpId)
                    EXCEPT !.entry_time = entry_time_arg,
                           !.sent = <<replicate_msg.write.client_id1,
                                      replicate_msg.write.client_id2>>]
        /\ pending' = IF done.queued
                      THEN Append(pending, [round |-> FreshRound,
                                            client_id |-> data.client_id,
                                            request_id |-> data.write.request_id])
                      ELSE pending
        /\ running_requests_gauge_' =
               IncrementBy(running_requests_gauge_, IF admitted THEN 1 ELSE 0)
        /\ replicated_request_ranges_gauge_' =
               IncrementBy(replicated_request_ranges_gauge_, -done.erased)
        /\ notified' = << >>
        /\ seen' = << >>
        /\ UNCHANGED <<now, committed, dfatal, observed>>

(* The ranges of all clients, as (client, range) pairs. *)
Ranges(clients) ==
    UNION {{<<c, x>> : x \in clients[c].replicated} : c \in DOMAIN clients}

(* The op-id of the next committed entry: entries commit, and are         *)
(* replayed, in log order.                                                 *)
LastIndex ==
    LET used == {x.op_id.index : x \in committed}
                \cup {p[2].min_op_id.index : p \in Ranges(clients_)}
                \cup {watched}
    IN CHOOSE n \in used : \A m \in used : m <= n

NextOpId == [term |-> 1, index |-> LastIndex + 1]

(* The history after the entry of data has committed. *)
Commit(data) ==
    {x \in committed : x.client_id # data.client_id
                        \/ x.request_id # data.write.request_id}
    \cup {[client_id |-> data.client_id, request_id |-> data.write.request_id,
            op_id |-> data.op_id, dropped |-> FALSE]}

(* Whether Register would refuse request_id of client_id as Expired or     *)
(* AlreadyPresent whatever watermark the request carries.                  *)
Refused(clients, client_id, request_id) ==
    /\ client_id \in DOMAIN clients
    /\ \/ request_id < clients[client_id].min_running_request_id
       \/ \E x \in clients[client_id].replicated :
              x.first_id <= request_id /\ request_id <= x.last_id

(* The history after a cleaning call: dropped marks the commits that the   *)
(* call made the index forget.                                             *)
Forget(before, after) ==
    {[x EXCEPT !.dropped = @ \/ (Refused(before, x.client_id, x.request_id)
                                  /\ ~Refused(after, x.client_id, x.request_id))] :
        x \in committed}

(* An erase that leaves the entry in the table. *)
Erase_kept(running, running_it) == running

(* running_indexed_by_request_id.erase(running_it) *)
Erase(running, running_it) == running \ {running_it}

(* Notifications that carry the status of the finish as it is. *)
NotifyDuplicates_same(duplicate_rounds, status, leader_term) ==
    [i \in 1 .. Len(duplicate_rounds) |->
        [round |-> duplicate_rounds[i], status |-> status, leader_term |-> leader_term]]

(* The NotifyReplicationFinished calls of ReplicationFinished, in order. *)
NotifyDuplicates(duplicate_rounds, status, leader_term) ==
    LET status_for_duplicate == IF status = OkStatus THEN duplicate_write_status
                                ELSE status
    IN [i \in 1 .. Len(duplicate_rounds) |->
          [round |-> duplicate_rounds[i], status |-> status_for_duplicate,
           leader_term |-> leader_term]]

(* The notification loop run after the erase and the gauge decrement. *)
AtNotify_erased(client, gauge, erased, decremented) ==
    [client |-> erased, gauge |-> decremented]

(* The record of the client and the running gauge as the notification loop *)
(* finds them, given what they are when ReplicationFinished has found the  *)
(* running entry and what the erase and the decrement make of them: the    *)
(* loop comes first.                                                       *)
AtNotify(client, gauge, erased, decremented) ==
    [client |-> client, gauge |-> gauge]

(* What a NotifyReplicationFinished call finds about the request it is     *)
(* notified of: whether its running entry is in the table, what the        *)
(* running gauge reads, whether a range holds its id.                      *)
Seen(at, request_id) ==
    [running |-> Running(at.client, request_id) # {},
     gauge |-> at.gauge.value,
     replicated |-> \E x \in at.client.replicated :
                       x.first_id <= request_id /\ request_id <= x.last_id]

ReplicationFinishedCall(replicate_msg, status, leader_term) ==
    LET data == FromMsg(replicate_msg) IN
    IF ~IsData(data)
    THEN /\ ret' = Ret("ReplicationFinished", data.client_id, 0, "void", 0, NoOpId)
         /\ notified' = << >>
         /\ seen' = << >>
         /\ UNCHANGED <<clients_, now, running_requests_gauge_,
                        replicated_request_ranges_gauge_, committed, pending, dfatal,
                        observed>>
    ELSE
    LET client_id == data.client_id
        request_id == data.write.request_id
        created == Subscript(clients_, client_id)
        client == created[client_id]
        found == Running(client, request_id)
    IN
    /\ UNCHANGED <<now, observed>>
    /\ committed' = IF status = OkStatus THEN Commit(data) ELSE committed
    /\ IF found = {}
       THEN /\ ret' = Ret("ReplicationFinished", client_id, request_id, "DFATAL",
                          0, data.op_id)
            /\ clients_' = created
            /\ notified' = << >>
            /\ seen' = << >>
            /\ dfatal' = TRUE
            /\ UNCHANGED <<running_requests_gauge_, replicated_request_ranges_gauge_,
                           pending>>
       ELSE LET running_it == CHOOSE x \in found : TRUE
                calls == NotifyDuplicates(running_it.duplicate_rounds, status,
                                          leader_term)
                entry_time == running_it.time
                erased == [client EXCEPT !.running = Erase(@, running_it)]
                added == IF status = OkStatus
                         THEN AddReplicated(data.op_id, request_id, entry_time, erased)
                         ELSE [client |-> erased, delta |-> 0, dfatal |-> FALSE]
            IN /\ ret' = [Ret("ReplicationFinished", client_id, request_id, status,
                              0, data.op_id) EXCEPT !.leader_term = leader_term]
               /\ notified' = calls
               /\ seen' = [i \in DOMAIN calls |->
                             Seen(AtNotify(client, running_requests_gauge_, erased,
                                           IncrementBy(running_requests_gauge_, -1)),
                                  request_id)]
               /\ pending' = SelectSeq(pending, LAMBDA p :
                                \A i \in DOMAIN calls : calls[i].round # p.round)
               /\ running_requests_gauge_' = IncrementBy(running_requests_gauge_, -1)
               /\ replicated_request_ranges_gauge_' =
                      IncrementBy(replicated_request_ranges_gauge_, added.delta)
               /\ clients_' = Store(created, client_id, added.client)
               /\ dfatal' = (dfatal \/ added.dfatal)

(* Bootstrap that advances the watermark after AddReplicated. *)
BootstrapImpl_late(clients, ranges_gauge, replicate_msg, entry_time) ==
    LET data == FromMsg(replicate_msg)
        client_id == data.client_id
        request_id == data.write.request_id
        created == Subscript(clients, client_id)
        added == AddReplicated(data.op_id, request_id, entry_time, created[client_id])
        cleanup == CleanupReplicatedRequests(data.write.min_running_request_id,
                                             added.client)
    IN  IF ~IsData(data)
        THEN [clients |-> clients, ranges_gauge |-> ranges_gauge, dfatal |-> FALSE]
        ELSE IF Running(created[client_id], request_id) # {}
        THEN [clients |-> created, ranges_gauge |-> ranges_gauge, dfatal |-> TRUE]
        ELSE [clients |-> Store(created, client_id, cleanup.client),
              ranges_gauge |-> IncrementBy(ranges_gauge, added.delta - cleanup.erased),
              dfatal |-> added.dfatal]

(* Bootstrap as a function of the coordinator's state. *)
BootstrapImpl(clients, ranges_gauge, replicate_msg, entry_time) ==
    LET data == FromMsg(replicate_msg)
        client_id == data.client_id
        request_id == data.write.request_id
        created == Subscript(clients, client_id)
        cleanup == CleanupReplicatedRequests(data.write.min_running_request_id,
                                             created[client_id])
        added == AddReplicated(data.op_id, request_id, entry_time, cleanup.client)
    IN  IF ~IsData(data)
        THEN [clients |-> clients, ranges_gauge |-> ranges_gauge, dfatal |-> FALSE]
        ELSE IF Running(created[client_id], request_id) # {}
        THEN [clients |-> created, ranges_gauge |-> ranges_gauge, dfatal |-> TRUE]
        ELSE [clients |-> Store(created, client_id, added.client),
              ranges_gauge |-> IncrementBy(ranges_gauge, added.delta - cleanup.erased),
              dfatal |-> added.dfatal]

BootstrapCall(replicate_msg, entry_time) ==
    LET data == FromMsg(replicate_msg)
        done == BootstrapImpl(clients_, replicated_request_ranges_gauge_,
                              replicate_msg, entry_time)
    IN  /\ clients_' = done.clients
        /\ replicated_request_ranges_gauge_' = done.ranges_gauge
        /\ dfatal' = (dfatal \/ done.dfatal)
        /\ committed' = IF IsData(data) THEN Commit(data) ELSE committed
        /\ ret' = IF IsData(data)
                  THEN [Carrying(Ret("Bootstrap", data.client_id, data.write.request_id,
                                     IF done.dfatal THEN "DFATAL" ELSE "void", 0,
                                     data.op_id), data)
                        EXCEPT !.entry_time = entry_time]
                  ELSE Ret("Bootstrap", data.client_id, 0, "void", 0, NoOpId)
        /\ notified' = << >>
        /\ seen' = << >>
        /\ UNCHANGED <<now, running_requests_gauge_, pending, observed>>

(* Every range with max_time < clean_start, wherever it is in the index. *)
ExpiredPrefix_all(replicated, clean_start) ==
    {x \in replicated : x.max_time < clean_start}

(* The OpIdIndex (ordered_unique on min_op_id): the ranges the loop of     *)
(* CleanExpiredReplicatedAndGetMinOpId steps over, i.e. the longest prefix *)
(* in min_op_id order whose ranges all have max_time < clean_start.        *)
ExpiredPrefix(replicated, clean_start) ==
    {x \in replicated :
        \A y \in replicated :
            ~OpIdLess(x.min_op_id, y.min_op_id) => y.max_time < clean_start}

(* The last range in min_op_id order in the place of the first. *)
OpIdBegin_last(replicated) ==
    CHOOSE x \in replicated : \A y \in replicated : ~OpIdLess(x.min_op_id, y.min_op_id)

(* op_id_index.begin() of a non-empty table. *)
OpIdBegin(replicated) ==
    CHOOSE x \in replicated : \A y \in replicated : ~OpIdLess(y.min_op_id, x.min_op_id)

RECURSIVE OpIdMinOf(_)
OpIdMinOf(ops) ==
    IF ops = {} THEN OpIdMax
    ELSE LET x == CHOOSE o \in ops : TRUE
         IN OpIdMin(OpIdMinOf(ops \ {x}), x)

(* A round of the loop that erases the expired ranges and never the record. *)
CleanClient_kept(client, clean_now, clean_start) ==
    LET kept == {x \in client.replicated : x.max_time >= clean_start}
    IN [client |-> [client EXCEPT !.replicated = kept],
        evict |-> FALSE,
        count |-> Cardinality(client.replicated \ kept),
        min_op_id |-> OpIdMinOf({x.min_op_id : x \in kept})]

(* A round that takes a client for empty as soon as no range is left. *)
CleanClient_unheld(client, clean_now, clean_start) ==
    LET expired == ExpiredPrefix(client.replicated, clean_start)
        kept == client.replicated \ expired
        cleaned == [client EXCEPT !.replicated = kept]
        empty == kept = {}
    IN [client |-> IF empty /\ client.empty_since = UnsetTime
                   THEN [cleaned EXCEPT !.empty_since = clean_now]
                   ELSE cleaned,
        evict |-> empty /\ client.empty_since # UnsetTime
                        /\ client.empty_since < clean_start,
        count |-> Cardinality(expired),
        min_op_id |-> IF kept # {} THEN OpIdBegin(kept).min_op_id ELSE OpIdMax]

(* One round of the loop over clients_: the record afterwards, whether it  *)
(* is erased from clients_, the count and the candidate for result.        *)
CleanClient(client, clean_now, clean_start) ==
    LET expired == ExpiredPrefix(client.replicated, clean_start)
        kept == client.replicated \ expired
        cleaned == [client EXCEPT !.replicated = kept]
        empty == kept = {} /\ client.running = {}
    IN [client |-> IF empty /\ client.empty_since = UnsetTime
                   THEN [cleaned EXCEPT !.empty_since = clean_now]
                   ELSE cleaned,
        evict |-> empty /\ client.empty_since # UnsetTime
                        /\ client.empty_since < clean_start,
        count |-> Cardinality(expired),
        min_op_id |-> IF kept # {} THEN OpIdBegin(kept).min_op_id ELSE OpIdMax]

(* A cleaning that keeps nothing older than the call. *)
CleanExpiredImpl_now(clients, clean_now) ==
    LET clean_start == clean_now
        round == [c \in DOMAIN clients |-> CleanClient(clients[c], clean_now, clean_start)]
        kept == {c \in DOMAIN clients : ~round[c].evict}
    IN [clients |-> [c \in kept |-> round[c].client],
        count |-> Sum([c \in DOMAIN clients |-> round[c].count], DOMAIN clients),
        result |-> OpIdMinOf({round[c].min_op_id : c \in DOMAIN clients})]

CleanExpiredImpl(clients, clean_now) ==
    LET clean_start == clean_now - FLAGS_retryable_request_timeout_secs
        round == [c \in DOMAIN clients |-> CleanClient(clients[c], clean_now, clean_start)]
        kept == {c \in DOMAIN clients : ~round[c].evict}
    IN [clients |-> [c \in kept |-> round[c].client],
        count |-> Sum([c \in DOMAIN clients |-> round[c].count], DOMAIN clients),
        result |-> OpIdMinOf({round[c].min_op_id : c \in DOMAIN clients})]

CleanExpiredReplicatedAndGetMinOpId ==
    LET done == CleanExpiredImpl(clients_, now)
    IN  /\ clients_' = done.clients
        /\ replicated_request_ranges_gauge_' =
               IncrementBy(replicated_request_ranges_gauge_, -done.count)
        /\ ret' = Ret("CleanExpiredReplicatedAndGetMinOpId", Nil, 0, "ok", 0, done.result)
        /\ notified' = << >>
        /\ seen' = << >>
        /\ committed' = Forget(clients_, done.clients)
        /\ UNCHANGED <<now, running_requests_gauge_, pending, dfatal, observed>>

(* The watermark of client_id: that of its record, 0 when it has none. *)
Watermark(clients, client_id) ==
    IF client_id \in DOMAIN clients THEN clients[client_id].min_running_request_id
    ELSE 0

(* A lookup that answers with watermark 0 for a client it does not know. *)
MinRunningRequestId_zero(client_id) ==
    /\ ret' = Ret("MinRunningRequestId", client_id, 0, "ok",
                  Watermark(clients_, client_id), NoOpId)
    /\ notified' = << >>
    /\ seen' = << >>
    /\ UNCHANGED <<clients_, now, running_requests_gauge_,
                   replicated_request_ranges_gauge_, committed, pending, dfatal>>

MinRunningRequestId(client_id) ==
    /\ ret' = IF client_id \in DOMAIN clients_
              THEN Ret("MinRunningRequestId", client_id, 0, "ok",
                       clients_[client_id].min_running_request_id, NoOpId)
              ELSE Ret("MinRunningRequestId", client_id, 0, "NotFound", 0, NoOpId)
    /\ notified' = << >>
    /\ seen' = << >>
    /\ UNCHANGED <<clients_, now, running_requests_gauge_,
                   replicated_request_ranges_gauge_, committed, pending, dfatal>>

(* Called once, by the tablet peer that owns the index, before it is used. *)
SetMetricEntity ==
    /\ ret.op = "Impl"
    /\ running_requests_gauge_' = [instantiated |-> TRUE, value |-> 0]
    /\ replicated_request_ranges_gauge_' = [instantiated |-> TRUE, value |-> 0]
    /\ ret' = Ret("SetMetricEntity", Nil, 0, "void", 0, NoOpId)
    /\ notified' = << >>
    /\ seen' = << >>
    /\ UNCHANGED <<clients_, now, committed, pending, dfatal, observed, emptied,
                   appeared, watched>>

(* The caller has taken the result of the call; a process that wrote a    *)
(* DFATAL line is not followed further.                                    *)
Return ==
    /\ ~Callable
    /\ ~dfatal
    /\ ret' = Idle
    /\ notified' = << >>
    /\ seen' = << >>
    /\ UNCHANGED <<clients_, now, running_requests_gauge_,
                   replicated_request_ranges_gauge_, committed, pending, dfatal,
                   observed, emptied, appeared, watched>>

(* A release build: LOG(DFATAL) has written its line and the method has    *)
(* returned; the caller goes on.                                           *)
ReturnInRelease ==
    /\ ~Callable
    /\ dfatal
    /\ ret' = Idle
    /\ notified' = << >>
    /\ seen' = << >>
    /\ UNCHANGED <<clients_, now, running_requests_gauge_,
                   replicated_request_ranges_gauge_, committed, pending, dfatal,
                   observed, emptied, appeared, watched>>

(* The restart-safe clock moves on. *)
Tick(max_time) ==
    /\ Callable
    /\ now < max_time
    /\ now' = now + 1
    /\ UNCHANGED <<clients_, running_requests_gauge_, replicated_request_ranges_gauge_,
                   ret, notified, seen, committed, pending, dfatal, observed, emptied,
                   appeared, watched>>

(* A time as it is kept once the clock has run past max_time: only how    *)
(* long ago it was matters, and whatever is at least max_time - 1 ago is   *)
(* kept as that.                                                           *)
Aged(time) == IF time = UnsetTime THEN UnsetTime ELSE Max(time - 1, 1)

AgedClient(client) ==
    [client EXCEPT
        !.running = {[e EXCEPT !.time = Aged(@)] : e \in @},
        !.replicated = {[x EXCEPT !.min_time = Aged(@), !.max_time = Aged(@)] : x \in @},
        !.empty_since = Aged(@)]

(* The restart-safe clock moves on without end.  Once it shows max_time    *)
(* the model keeps now where it is and ages every time it holds instead.   *)
Elapse(max_time) ==
    /\ Callable
    /\ IF now < max_time
       THEN /\ now' = now + 1
            /\ UNCHANGED <<clients_, emptied>>
       ELSE /\ now' = now
            /\ clients_' = [c \in DOMAIN clients_ |-> AgedClient(clients_[c])]
            /\ emptied' = [c \in DOMAIN emptied |-> Aged(emptied[c])]
    /\ UNCHANGED <<running_requests_gauge_, replicated_request_ranges_gauge_,
                   ret, notified, seen, committed, pending, dfatal, observed, appeared, watched>>

----------------------------------------------------------------------------
(* The callers.  A workload W says who calls: the clients that write, the  *)
(* request ids and watermarks their writes carry, how far before now an    *)
(* explicit entry time lies, the error statuses and leader terms consensus *)
(* reports, and the bounds on running requests, deferred rounds, committed *)
(* entries and the clock.                                                  *)

EntryTimes(W) == {t \in 1 .. now : now - W.back <= t}

(* The entry times Register is given: callers that do not back-date leave  *)
(* the entry time unset, the others also give one.                         *)
EntryTimesGiven(W) ==
    IF W.back = 0 THEN {UnsetTime} ELSE {UnsetTime} \cup EntryTimes(W)

WithinBounds(W) ==
    /\ TotalRunning(clients_') <= W.max_running
    /\ Len(pending') <= W.max_rounds

Register(W) ==
    /\ Callable
    /\ \E c \in W.clients, r \in W.request_ids, m \in W.watermarks,
          t \in EntryTimesGiven(W) :
            /\ RegisterCall(WriteMsg(c, r, m, NoOpId), t)
            /\ WithinBounds(W)
    /\ Track

(* A replicate without a write, and a write whose client id is all zero. *)
RegisterNonWrite ==
    /\ Callable
    /\ \/ RegisterCall(NonWriteMsg(NoOpId), UnsetTime)
       \/ RegisterCall(WriteMsg(Nil, 1, 0, NoOpId), UnsetTime)
    /\ Track

ReplicationFinished(W) ==
    /\ Callable
    /\ \E c \in W.clients, r \in W.request_ids, l \in W.leader_terms :
        \/ /\ LastIndex < W.max_ops
           /\ ReplicationFinishedCall(WriteMsg(c, r, 0, NextOpId), OkStatus, l)
        \/ \E s \in W.errors :
              ReplicationFinishedCall(WriteMsg(c, r, 0, NoOpId), s, l)
    /\ Track

ReplicationFinishedNonWrite ==
    /\ Callable
    /\ \E s \in Statuses :
        \/ ReplicationFinishedCall(NonWriteMsg(NoOpId), s, 1)
        \/ ReplicationFinishedCall(WriteMsg(Nil, 1, 0, NoOpId), s, 1)
    /\ Track

Bootstrap(W) ==
    /\ Callable
    /\ LastIndex < W.max_ops
    /\ \E c \in W.clients, r \in W.request_ids, m \in W.watermarks,
          t \in EntryTimes(W) :
            BootstrapCall(WriteMsg(c, r, m, NextOpId), t)
    /\ Track

BootstrapNonWrite ==
    /\ Callable
    /\ \/ BootstrapCall(NonWriteMsg(NoOpId), now)
       \/ BootstrapCall(WriteMsg(Nil, 1, 0, NoOpId), now)
    /\ Track

(* The replay applies the write replicate of the Bootstrap that has just   *)
(* returned once more, with the same entry time.                           *)
BootstrapAgain ==
    /\ ret.op = "Bootstrap"
    /\ ret.request_id # 0
    /\ BootstrapCall(WriteMsg(ret.client_id, ret.request_id,
                              ret.min_running_request_id, ret.op_id),
                     ret.entry_time)
    /\ Track

Clean == Callable /\ CleanExpiredReplicatedAndGetMinOpId /\ Track

(* A caller that asks for the watermark of a client; under W.keeps it      *)
(* keeps the last value it was given.                                      *)
Query(W) ==
    /\ Callable
    /\ \E c \in W.clients :
        /\ MinRunningRequestId(c)
        /\ observed' = IF W.keeps /\ ret'.result = "ok"
                       THEN Store(observed, c, ret'.min_running)
                       ELSE observed
    /\ Track

(* The calls of a leader that replicates writes. *)
Writes(W) ==
    \/ Register(W)
    \/ RegisterNonWrite
    \/ ReplicationFinished(W)
    \/ ReplicationFinishedNonWrite
    \/ Query(W)
    \/ Return
    \/ Tick(W.max_time)

(* With the replay of the log and the periodic cleaning. *)
Calls(W) ==
    \/ Writes(W)
    \/ Bootstrap(W)
    \/ BootstrapNonWrite
    \/ Clean

(* One client, whose callers keep the watermark they were given. *)
OneClient ==
    [clients |-> {ClientA}, request_ids |-> 1 .. MaxRequestId,
     watermarks |-> 0 .. MaxRequestId, back |-> 0,
     errors |-> {"Aborted"}, leader_terms |-> {1},
     max_running |-> 1, max_rounds |-> 0, max_ops |-> MaxOpIndex,
     max_time |-> MaxTime, keeps |-> TRUE]

Next == Calls(OneClient)

Spec == Init /\ [][Next]_vars

(* The same client when nothing is replayed and nothing is cleaned. *)
NextWrites == Writes(OneClient)

SpecWrites == Init /\ [][NextWrites]_vars

(* One client whose requests are retried while they replicate, under a     *)
(* tablet peer that has installed the gauges.                              *)
Retries ==
    [clients |-> {ClientA}, request_ids |-> 1 .. MaxRetriedId,
     watermarks |-> 0 .. MaxRetriedId, back |-> 0,
     errors |-> ErrorStatuses, leader_terms |-> LeaderTerms,
     max_running |-> MaxRunning, max_rounds |-> MaxRounds, max_ops |-> MaxRetriedOps,
     max_time |-> MaxRetryTime, keeps |-> FALSE]

NextRetries == Calls(Retries) \/ SetMetricEntity

SpecRetries == Init /\ [][NextRetries]_vars

(* Two clients of one tablet, each writing two requests that are not      *)
(* neighbours.                                                             *)
TwoClients ==
    [clients |-> {ClientA, ClientB}, request_ids |-> {1, MaxSharedId},
     watermarks |-> {0}, back |-> 0,
     errors |-> {"Aborted"}, leader_terms |-> {1},
     max_running |-> 1, max_rounds |-> 0, max_ops |-> MaxSharedOps,
     max_time |-> MaxTime, keeps |-> FALSE]

NextTwoClients == Calls(TwoClients)

SpecTwoClients == Init /\ [][NextTwoClients]_vars

(* A leader that is cleaned from time to time, serving one client whose    *)
(* request ids have a gap; every entry time is the time of the call, and   *)
(* requests commit in the order they were registered.                      *)
Sparse ==
    [clients |-> {ClientA}, request_ids |-> {1, 2, MaxSparseId},
     watermarks |-> {0}, back |-> 0,
     errors |-> {"Aborted"}, leader_terms |-> {1},
     max_running |-> 1, max_rounds |-> 0, max_ops |-> MaxSparseOps,
     max_time |-> MaxTime, keeps |-> FALSE]

NextLeader == Writes(Sparse) \/ Clean

SpecLeader == Init /\ [][NextLeader]_vars

(* A tablet whose client writes for a while and then falls silent, while  *)
(* the clock runs on and the log cleaner keeps polling.  The clock is      *)
(* followed far enough past the writes for retention to be told from age.  *)
Silenced ==
    [clients |-> {ClientA}, request_ids |-> 1 .. MaxSilencedId,
     watermarks |-> {0, MaxSilencedId}, back |-> 0,
     errors |-> {"Aborted"}, leader_terms |-> {1},
     max_running |-> 1, max_rounds |-> 0, max_ops |-> MaxSilencedOps,
     max_time |-> MaxBusyTime + FLAGS_retryable_request_timeout_secs + 1,
     keeps |-> FALSE]

Busy == now <= MaxBusyTime

NextSilenced ==
    \/ Busy /\ Register(Silenced)
    \/ Busy /\ ReplicationFinished(Silenced)
    \/ Busy /\ Bootstrap(Silenced)
    \/ Query(Silenced)
    \/ Clean
    \/ Return
    \/ Elapse(Silenced.max_time)

SpecSilenced ==
    /\ Init /\ [][NextSilenced]_vars
    /\ SF_vars(Elapse(Silenced.max_time))
    /\ SF_vars(Clean)
    /\ WF_vars(Return)

(* A client that never stops writing, under a log cleaner that keeps       *)
(* polling.  Request ids, log indexes and the clock grow without end; the  *)
(* model keeps a window of each, and renumbers when the window is full.    *)
(* The window of the clock is wide enough for a time kept at its floor to  *)
(* compare as any older time would: it is past retention, and past the     *)
(* range time limit of every entry time a commit can still carry.          *)
Steady ==
    [clients |-> {ClientA}, request_ids |-> 1 .. MaxSteadyId,
     watermarks |-> {0, MaxSteadyId}, back |-> 0,
     errors |-> {"Aborted"}, leader_terms |-> {1},
     max_running |-> 1, max_rounds |-> 0, max_ops |-> MaxSteadyOps,
     max_time |-> MaxSteadyLag + FLAGS_retryable_request_timeout_secs
                  + FLAGS_retryable_request_range_time_limit_secs + 1,
     keeps |-> FALSE]

(* The log indexes the index still holds, with the one that is followed. *)
UsedIndexes ==
    {p[2].min_op_id.index : p \in Ranges(clients_)} \cup ({watched} \ {0})

Rank(index) == Cardinality({u \in UsedIndexes : u <= index})

(* Op-ids are only compared: once the window of log indexes is full, the   *)
(* indexes still held are renumbered 1, 2, ... in their order, and the     *)
(* history forgets the commits at the others.                              *)
RenumberLog(W) ==
    /\ Callable
    /\ LastIndex = W.max_ops
    /\ UsedIndexes # 1 .. LastIndex
    /\ clients_' = [c \in DOMAIN clients_ |->
                      [clients_[c] EXCEPT !.replicated =
                          {[x EXCEPT !.min_op_id.index = Rank(@)] : x \in @}]]
    /\ committed' = {[x EXCEPT !.op_id.index = Rank(@)] :
                        x \in {y \in committed : y.op_id.index \in UsedIndexes}}
    /\ watched' = Rank(watched)
    /\ UNCHANGED <<now, running_requests_gauge_, replicated_request_ranges_gauge_,
                   ret, notified, seen, pending, dfatal, observed, emptied, appeared>>

LowerId(client) ==
    [client EXCEPT
        !.min_running_request_id = Max(@ - 1, 0),
        !.running = {[e EXCEPT !.request_id = @ - 1] : e \in @},
        !.replicated = {[x EXCEPT !.first_id = @ - 1, !.last_id = @ - 1] : x \in @}]

(* Request ids are only compared with each other and with watermarks: once *)
(* the highest id of the window is taken and the lowest is in no table,    *)
(* every id and watermark is lowered by one.                               *)
RenumberRequests(W) ==
    /\ Callable
    /\ \E c \in DOMAIN clients_ :
          \/ \E e \in clients_[c].running : \A r \in W.request_ids : r <= e.request_id
          \/ \E x \in clients_[c].replicated : \A r \in W.request_ids : r <= x.last_id
    /\ \A c \in DOMAIN clients_ :
          /\ \A e \in clients_[c].running : e.request_id > 1
          /\ \A x \in clients_[c].replicated : x.first_id > 1
    /\ clients_' = [c \in DOMAIN clients_ |-> LowerId(clients_[c])]
    /\ committed' = {[x EXCEPT !.request_id = @ - 1] :
                        x \in {y \in committed : y.request_id > 1}}
    /\ UNCHANGED <<now, running_requests_gauge_, replicated_request_ranges_gauge_,
                   ret, notified, seen, pending, dfatal, observed, emptied, appeared,
                   watched>>

(* A committed entry is picked to be followed. *)
Watch ==
    /\ Callable
    /\ watched = 0
    /\ \E x \in committed : watched' = x.op_id.index
    /\ UNCHANGED <<clients_, now, running_requests_gauge_,
                   replicated_request_ranges_gauge_, ret, notified, seen, committed,
                   pending, dfatal, observed, emptied, appeared>>

(* The finish that has just been made was not a commit of a request       *)
(* registered longer than MaxSteadyLag ago: such requests fail.            *)
Timely ==
    (ret'.result = "OK" /\ ret'.client_id \in DOMAIN clients_)
    => \A e \in clients_[ret'.client_id].running :
          e.request_id = ret'.request_id => now - e.time <= MaxSteadyLag

NextSteady ==
    \/ Register(Steady)
    \/ ReplicationFinished(Steady) /\ Timely
    \/ Clean
    \/ Return
    \/ Elapse(Steady.max_time)
    \/ RenumberLog(Steady)
    \/ RenumberRequests(Steady)
    \/ Watch

(* The clock keeps advancing and the cleaner keeps being polled. *)
SpecSteady ==
    /\ Init /\ [][NextSteady]_vars
    /\ SF_vars(Elapse(Steady.max_time))
    /\ SF_vars(Clean)
    /\ WF_vars(Return)

(* One client whose requests commit out of order and close the gaps        *)
(* between its ranges, while its watermark advances, under a tablet peer   *)
(* that has installed the gauges.                                          *)
Ranged ==
    [clients |-> {ClientA}, request_ids |-> 1 .. MaxRangedId,
     watermarks |-> {0, MaxRangedId - 1}, back |-> 0,
     errors |-> {"Aborted"}, leader_terms |-> {1},
     max_running |-> 1, max_rounds |-> 1, max_ops |-> MaxRangedOps,
     max_time |-> MaxRangedTime, keeps |-> FALSE]

NextRanged == Calls(Ranged) \/ SetMetricEntity

SpecRanged == Init /\ [][NextRanged]_vars

(* A release build, followed past its DFATAL lines. *)
Release ==
    [clients |-> {ClientA}, request_ids |-> 1 .. MaxReleaseId,
     watermarks |-> {0, MaxReleaseId}, back |-> 0,
     errors |-> {"Aborted"}, leader_terms |-> {1},
     max_running |-> 1, max_rounds |-> 0, max_ops |-> MaxReleaseOps,
     max_time |-> MaxTime, keeps |-> FALSE]

NextRelease == Calls(Release) \/ ReturnInRelease

SpecRelease == Init /\ [][NextRelease]_vars

(* One client whose requests commit in any order and up to two ticks       *)
(* apart, further than the range time limit, under a tablet peer that has  *)
(* installed the gauges.  Its watermark stays 0.                           *)
Timed ==
    [clients |-> {ClientA}, request_ids |-> 1 .. MaxTimedId,
     watermarks |-> {0}, back |-> 0,
     errors |-> {"Aborted"}, leader_terms |-> {1},
     max_running |-> 1, max_rounds |-> 0, max_ops |-> MaxTimedOps,
     max_time |-> MaxTimedTime, keeps |-> FALSE]

NextTimed == Calls(Timed) \/ SetMetricEntity

SpecTimed == Init /\ [][NextTimed]_vars

(* Clients with every combination of a zero and a non-zero half in their   *)
(* id, the all-zero id included, each writing its request 1 and retrying   *)
(* it; every call is given a replicate that has a write.                   *)
ClientC == <<1, 1>>

AnyClient ==
    [clients |-> {Nil, ClientA, ClientB, ClientC}, request_ids |-> {1},
     watermarks |-> {0}, back |-> 0,
     errors |-> {"Aborted"}, leader_terms |-> {1},
     max_running |-> 2, max_rounds |-> 1, max_ops |-> MaxAnyOps,
     max_time |-> MaxAnyTime, keeps |-> FALSE]

NextAnyClient ==
    \/ Register(AnyClient)
    \/ ReplicationFinished(AnyClient)
    \/ Query(AnyClient)
    \/ Return
    \/ Tick(AnyClient.max_time)

SpecAnyClient == Init /\ [][NextAnyClient]_vars

(* The replay of a log in which replicates may come twice, in a release    *)
(* build under a tablet peer that has installed the gauges; the payloads   *)
(* carry the watermark 0 or the highest request id.                        *)
Replayed ==
    [clients |-> {ClientA}, request_ids |-> 1 .. MaxReplayedId,
     watermarks |-> {0, MaxReplayedId}, back |-> 0,
     errors |-> {"Aborted"}, leader_terms |-> {1},
     max_running |-> 1, max_rounds |-> 0, max_ops |-> MaxReplayedOps,
     max_time |-> MaxReplayedTime, keeps |-> FALSE]

NextReplayed ==
    \/ Register(Replayed)
    \/ ReplicationFinished(Replayed)
    \/ Bootstrap(Replayed)
    \/ BootstrapAgain
    \/ Return
    \/ ReturnInRelease
    \/ Tick(Replayed.max_time)
    \/ SetMetricEntity

SpecReplayed == Init /\ [][NextReplayed]_vars

(* The commit that has just been made, by ReplicationFinished with OK or   *)
(* by Bootstrap, was of a request id above every id its client had         *)
(* committed, with an entry time not before any time in the client's       *)
(* ranges.                                                                 *)
InOrder ==
    (ret'.request_id # 0 /\ ret'.result \in {OkStatus, "void"})
    => /\ \A y \in committed :
             y.client_id = ret'.client_id => y.request_id < ret'.request_id
       /\ ret'.client_id \in DOMAIN clients_
          => \A x \in clients_[ret'.client_id].replicated :
                /\ \A e \in clients_[ret'.client_id].running :
                      e.request_id = ret'.request_id => x.max_time <= e.time
                /\ ret'.op = "Bootstrap" => x.max_time <= now

(* The client of Timed when its requests commit in the order of their ids. *)
NextInOrder ==
    \/ Register(Timed)
    \/ ReplicationFinished(Timed) /\ InOrder
    \/ Bootstrap(Timed) /\ InOrder
    \/ Clean
    \/ Query(Timed)
    \/ Return
    \/ Tick(Timed.max_time)
    \/ SetMetricEntity

SpecInOrder == Init /\ [][NextInOrder]_vars

(* One client whose rounds come with an entry time of their own, up to     *)
(* MaxEnteredBack before now, or with none, and are retried while they run. *)
Entered ==
    [clients |-> {ClientA}, request_ids |-> 1 .. MaxEnteredId,
     watermarks |-> {0}, back |-> MaxEnteredBack,
     errors |-> {"Aborted"}, leader_terms |-> {1},
     max_running |-> 1, max_rounds |-> 1, max_ops |-> MaxEnteredOps,
     max_time |-> MaxEnteredTime, keeps |-> FALSE]

NextEntered == Calls(Entered)

SpecEntered == Init /\ [][NextEntered]_vars

----------------------------------------------------------------------------
(* A step that is a call of op: calls are made when no call is in progress *)
(* and leave what they returned in ret.                                    *)
IsCall(op) == Callable /\ ret'.op = op

(* The commit of (client_id, request_id), if the index has not been made   *)
(* to forget it.                                                           *)
Remembered(client_id, request_id) ==
    {x \in committed : /\ x.client_id = client_id
                        /\ x.request_id = request_id
                        /\ ~x.dropped}

(* C1 as stated: once a request (c, r) has committed -- its                *)
(* ReplicationFinished had status OK, or Bootstrap replayed it -- no later *)
(* Register of (c, r) returns true.                                        *)
C1_AdmittedOnceEver ==
    [][IsCall("Register") /\ ret'.result = "true" /\ ret'.client_id # Nil
       => ~\E x \in committed : /\ x.client_id = ret'.client_id
                                 /\ x.request_id = ret'.request_id]_vars

(* C1: once a request (c, r) has committed, no later Register of (c, r)    *)
(* returns true, unless a call of CleanExpiredReplicatedAndGetMinOpId in   *)
(* between erased the range that covers r or evicted the record of c.      *)
C1_AdmittedOnce ==
    [][IsCall("Register") /\ ret'.result = "true" /\ ret'.client_id # Nil
       => Remembered(ret'.client_id, ret'.request_id) = {}]_vars

(* A retry of a committed request has been turned away. *)
C1_Witness ==
    /\ ret.op = "Register"
    /\ ret.result \in {"AlreadyPresent", "Expired"}
    /\ Remembered(ret.client_id, ret.request_id) # {}

(* A step that is a Register of a committed request whose message carries *)
(* a watermark that is not above the request id.                           *)
RetryOfCommitted ==
    /\ IsCall("Register")
    /\ ret'.client_id # Nil
    /\ ret'.min_running_request_id <= ret'.request_id
    /\ \E x \in committed : /\ x.client_id = ret'.client_id
                              /\ x.request_id = ret'.request_id

RunningUnchanged(client_id) ==
    /\ client_id \in DOMAIN clients_
    /\ clients_'[client_id].running = clients_[client_id].running

(* C2 as stated: on a leader that is not cleaned, after Register(r) of     *)
(* client c returned true and ReplicationFinished(r, OK) followed, every   *)
(* later Register(r) of c whose message carries a watermark <= r fails     *)
(* with AlreadyPresent and adds nothing to the running table.              *)
C2_RetryAlreadyPresentAlways ==
    [][RetryOfCommitted
       => /\ ret'.result = "AlreadyPresent"
          /\ RunningUnchanged(ret'.client_id)]_vars

(* C2: ... every later Register(r) of c whose message carries a watermark  *)
(* <= r adds nothing to the running table; it fails with AlreadyPresent if *)
(* the watermark of c is still <= r, and with Expired if a Register in     *)
(* between has raised the watermark of c above r.                          *)
C2_RetryAlreadyPresent ==
    [][RetryOfCommitted
       => /\ RunningUnchanged(ret'.client_id)
          /\ ret'.result =
                IF clients_[ret'.client_id].min_running_request_id <= ret'.request_id
                THEN "AlreadyPresent" ELSE "Expired"]_vars

(* The retry of a committed request has failed with AlreadyPresent. *)
C2_Witness ==
    /\ ret.op = "Register"
    /\ ret.result = "AlreadyPresent"
    /\ ret.min_running_request_id <= ret.request_id
    /\ \E x \in committed : /\ x.client_id = ret.client_id
                              /\ x.request_id = ret.request_id

(* The running entry of request_id in the record of client_id, as a set. *)
Entry(clients, client_id, request_id) ==
    IF client_id \in DOMAIN clients
    THEN {e \in clients[client_id].running : e.request_id = request_id}
    ELSE {}

(* A step that is a Register of a request that is running and that the    *)
(* watermark -- raised to the one the message carries -- is not above.     *)
RegisterOfRunning ==
    /\ IsCall("Register")
    /\ Entry(clients_, ret'.client_id, ret'.request_id) # {}
    /\ ret'.request_id >= Max(clients_[ret'.client_id].min_running_request_id,
                              ret'.min_running_request_id)

(* C3: a Register of (c, r) made while r is in the running table of c, r   *)
(* not below the watermark, returns false, appends the round to the        *)
(* duplicate_rounds of the existing entry, and leaves the number of        *)
(* running entries, the running gauge and the entry's time unchanged.      *)
C3_DuplicateWhileRunning ==
    [][RegisterOfRunning
       => LET c == ret'.client_id
              before == Entry(clients_, c, ret'.request_id)
              after == Entry(clients_', c, ret'.request_id)
          IN /\ ret'.result = "false"
             /\ Len(pending') = Len(pending) + 1
             /\ \E e \in before :
                   after = {[e EXCEPT !.duplicate_rounds =
                                Append(@, pending'[Len(pending')].round)]}
             /\ clients_'[c].running \ after = clients_[c].running \ before
             /\ running_requests_gauge_' = running_requests_gauge_]_vars

(* A second retry has been queued behind a running request, under gauges   *)
(* that count.                                                             *)
C3_Witness ==
    /\ ret.op = "Register"
    /\ ret.result = "false"
    /\ running_requests_gauge_.instantiated
    /\ \E e \in Entry(clients_, ret.client_id, ret.request_id) :
          Len(e.duplicate_rounds) = 2

(* Where round is queued: the (client, running entry, position) triples. *)
QueuedAt(round) ==
    {<<c, e, j>> \in UNION {UNION {{<<c, e, j>> : j \in DOMAIN e.duplicate_rounds} :
                                    e \in clients_[c].running} : c \in DOMAIN clients_} :
        e.duplicate_rounds[j] = round}

QueuedSlots ==
    Sum([c \in DOMAIN clients_ |->
            Sum([e \in clients_[c].running |-> Len(e.duplicate_rounds)],
                clients_[c].running)], DOMAIN clients_)

(* The rounds Register has deferred and no call has notified are, each     *)
(* once, in the duplicate_rounds of the running entry of their request,    *)
(* in the order they were deferred.                                        *)
DeferredAreQueued ==
    /\ QueuedSlots = Len(pending)
    /\ \A i \in DOMAIN pending :
          \E q \in QueuedAt(pending[i].round) :
            /\ QueuedAt(pending[i].round) = {q}
            /\ q[1] = pending[i].client_id
            /\ q[2].request_id = pending[i].request_id
            /\ \A k \in DOMAIN pending :
                  \A p \in QueuedAt(pending[k].round) :
                     p[1] = q[1] /\ p[2] = q[2] /\ p[3] < q[3] => k < i

(* What a call notifies: nothing, unless it is the ReplicationFinished of  *)
(* a running entry; then the rounds queued on that entry, in order, with   *)
(* the status of the finish if it is an error and with the duplicate-write *)
(* status otherwise, and with the leader term of the call.                 *)
NotifiesItsDuplicates ==
    LET c == ret'.client_id
        finished == IF IsCall("ReplicationFinished")
                    THEN Entry(clients_, c, ret'.request_id) ELSE {}
    IN  IF finished = {}
        THEN /\ notified' = << >>
             /\ Len(pending') >= Len(pending)
             /\ SubSeq(pending', 1, Len(pending)) = pending
        ELSE \E e \in finished :
               /\ Entry(clients_', c, ret'.request_id) = {}
               /\ notified' =
                     [i \in DOMAIN e.duplicate_rounds |->
                        [round |-> e.duplicate_rounds[i],
                         status |-> IF ret'.result = OkStatus
                                    THEN duplicate_write_status ELSE ret'.result,
                         leader_term |-> ret'.leader_term]]
               /\ pending' = SelectSeq(pending, LAMBDA p :
                                \A i \in DOMAIN e.duplicate_rounds :
                                    e.duplicate_rounds[i] # p.round)

(* C4: every round Register deferred is notified only by the               *)
(* ReplicationFinished of the running entry it was queued on, together     *)
(* with the other rounds of that entry and in the order they were queued,  *)
(* with the finish status if it is an error and AlreadyPresent("Duplicate  *)
(* request") otherwise, and with the leader term unchanged; a notified     *)
(* round leaves the queue with its entry, so none is notified twice, and   *)
(* no other call notifies anything.                                        *)
C4_DeferredNotifiedOnce == [][NotifiesItsDuplicates /\ DeferredAreQueued']_vars

(* A failed finish under leader term 2 has notified two deferred rounds. *)
C4_Witness ==
    /\ ret.op = "ReplicationFinished"
    /\ ret.result \in ErrorStatuses
    /\ ret.leader_term = 2
    /\ Len(notified) = 2
    /\ notified[1].round # notified[2].round

(* A step that is the ReplicationFinished, with an error status, of a      *)
(* running request.                                                        *)
FinishWithError ==
    /\ IsCall("ReplicationFinished")
    /\ ret'.result \in ErrorStatuses

(* The step removes the running entry of the request it finishes and       *)
(* leaves the ranges and the watermark of the client as they were.         *)
ClearsRunningOnly ==
    LET c == ret'.client_id
    IN  /\ clients_'[c].running = clients_[c].running \ Entry(clients_, c, ret'.request_id)
        /\ Entry(clients_', c, ret'.request_id) = {}
        /\ clients_'[c].replicated = clients_[c].replicated
        /\ clients_'[c].min_running_request_id = clients_[c].min_running_request_id

(* What a Register of the request just finished returns when it is the     *)
(* next call and its message carries the watermark min_running.            *)
NextRegister(min_running) ==
    RegisterImpl(clients_', WriteMsg(ret'.client_id, ret'.request_id, min_running, NoOpId),
                 now, FreshRound).result

(* C5 as stated: ReplicationFinished(r, error) of a running request        *)
(* removes the running entry, leaves the ranges and the watermark of the   *)
(* client unchanged, and a Register(r) of the client that follows, its     *)
(* message carrying a watermark <= r, returns true.                        *)
C5_FailureReadmitsAlways ==
    [][FinishWithError
       => /\ ClearsRunningOnly
          /\ \A m \in 0 .. ret'.request_id : NextRegister(m) = "true"]_vars

(* C5: ... and a Register(r) of the client that follows, its message       *)
(* carrying a watermark <= r, returns true if the watermark of the client  *)
(* is <= r, and fails with Expired if the watermark was raised above r     *)
(* while r was running.                                                    *)
C5_FailureReadmits ==
    [][FinishWithError
       => /\ ClearsRunningOnly
          /\ \A m \in 0 .. ret'.request_id :
                NextRegister(m) =
                  IF clients_'[ret'.client_id].min_running_request_id <= ret'.request_id
                  THEN "true" ELSE "Expired"]_vars

(* A request has failed beside a replicated range of its client, and the   *)
(* watermark has not passed it.                                            *)
C5_Witness ==
    /\ ret.op = "ReplicationFinished"
    /\ ret.result \in ErrorStatuses
    /\ clients_[ret.client_id].replicated # {}
    /\ clients_[ret.client_id].min_running_request_id \in 1 .. ret.request_id

(* C6: a Register of (c, r) leaves the watermark of c at the maximum of    *)
(* what it was and what the message carries; it fails with Expired exactly *)
(* when r is strictly below that watermark -- whether or not r is running  *)
(* or covered by a range -- and the Expired status carries that watermark; *)
(* r equal to the watermark is not Expired.                                *)
C6_ExpiredBelowWatermark ==
    [][IsCall("Register") /\ ret'.client_id # Nil
       => LET c == ret'.client_id
              watermark == Max(Watermark(clients_, c), ret'.min_running_request_id)
          IN /\ Watermark(clients_', c) = watermark
             /\ (ret'.result = "Expired") = (ret'.request_id < watermark)
             /\ ret'.result = "Expired" => ret'.min_running = watermark]_vars

(* A running request has been rejected as Expired with the watermark its   *)
(* message raised.                                                         *)
C6_Witness ==
    /\ ret.op = "Register"
    /\ ret.result = "Expired"
    /\ ret.min_running = ret.min_running_request_id
    /\ ret.min_running = ret.request_id + 1
    /\ Entry(clients_, ret.client_id, ret.request_id) # {}

(* A step that is a Register, ReplicationFinished or Bootstrap of a        *)
(* replicate message without a write.                                      *)
CallWithoutWrite ==
    /\ \/ IsCall("Register")
       \/ IsCall("ReplicationFinished")
       \/ IsCall("Bootstrap")
    /\ \/ RegisterCall(NonWriteMsg(NoOpId), UnsetTime)
       \/ \E s \in Statuses : ReplicationFinishedCall(NonWriteMsg(NoOpId), s, 1)
       \/ BootstrapCall(NonWriteMsg(NoOpId), now)

(* C7: for a replicate message without a write payload Register returns    *)
(* true, and Register, ReplicationFinished and Bootstrap change no client  *)
(* record -- no running entry, range or watermark -- and no gauge, and     *)
(* create no client record.                                                *)
C7_NonWriteUntouched ==
    [][CallWithoutWrite
       => /\ clients_' = clients_
          /\ running_requests_gauge_' = running_requests_gauge_
          /\ replicated_request_ranges_gauge_' = replicated_request_ranges_gauge_
          /\ ret'.op = "Register" => ret'.result = "true"]_vars

(* A call without a write has returned while a request was running and a   *)
(* range was held, under gauges that count.                                *)
C7_Witness ==
    /\ ret.op \in {"Register", "ReplicationFinished", "Bootstrap"}
    /\ ret.client_id = Nil
    /\ running_requests_gauge_.instantiated
    /\ running_requests_gauge_.value + replicated_request_ranges_gauge_.value > 0
    /\ \E c \in DOMAIN clients_ : clients_[c].running # {} \/ clients_[c].replicated # {}

(* C8 as stated: the successive values MinRunningRequestId returns for a   *)
(* client never decrease, whatever calls are made in between.              *)
C8_ReturnedNeverDecreases ==
    [][IsCall("MinRunningRequestId") /\ ret'.result = "ok"
         /\ ret'.client_id \in DOMAIN observed
       => ret'.min_running >= observed[ret'.client_id]]_vars

(* C8: MinRunningRequestId returns the watermark of the client's record,   *)
(* NotFound when there is none; while the record exists its watermark      *)
(* never decreases; and only CleanExpiredReplicatedAndGetMinOpId removes a *)
(* record -- after which the watermark starts again from that of the next  *)
(* message of the client.                                                  *)
C8_WatermarkNeverDecreases ==
    [][/\ \A c \in DOMAIN clients_ \cap DOMAIN clients_' :
             clients_'[c].min_running_request_id >= clients_[c].min_running_request_id
       /\ DOMAIN clients_ \subseteq DOMAIN clients_'
             \/ IsCall("CleanExpiredReplicatedAndGetMinOpId")
       /\ IsCall("MinRunningRequestId")
             => IF ret'.client_id \in DOMAIN clients_
                THEN /\ ret'.result = "ok"
                     /\ ret'.min_running = clients_[ret'.client_id].min_running_request_id
                ELSE ret'.result = "NotFound"]_vars

(* A caller has been given a watermark that the messages of the client     *)
(* raised after request 1 had committed.                                   *)
C8_Witness ==
    /\ ret.op = "MinRunningRequestId"
    /\ ret.result = "ok"
    /\ ret.min_running = MaxRequestId
    /\ ret.client_id \in DOMAIN observed
    /\ Remembered(ret.client_id, 1) # {}

(* C9: the op-id CleanExpiredReplicatedAndGetMinOpId returns is <= the     *)
(* min_op_id of every range of every client that is there after the call   *)
(* -- it is the least of them -- and it is OpId::Max exactly when no range *)
(* is left in any client.                                                  *)
C9_FloorBelowSurvivors ==
    [][IsCall("CleanExpiredReplicatedAndGetMinOpId")
       => LET result == ret'.op_id
              left == Ranges(clients_')
          IN /\ \A p \in left : ~OpIdLess(p[2].min_op_id, result)
             /\ (result = OpIdMax) = (left = {})
             /\ left # {} => \E p \in left : p[2].min_op_id = result]_vars

(* A cleaning call has erased the oldest range and returned the floor of   *)
(* what two clients still hold.                                            *)
C9_Witness ==
    /\ ret.op = "CleanExpiredReplicatedAndGetMinOpId"
    /\ ret.op_id.index = 2
    /\ \E x \in committed : x.dropped
    /\ \A c \in {ClientA, ClientB} : c \in DOMAIN clients_ /\ clients_[c].replicated # {}

(* now - retention at the time of a cleaning call. *)
Threshold == now - FLAGS_retryable_request_timeout_secs

(* The ranges within retention are there after the call. *)
RecentKept ==
    \A p \in Ranges(clients_) : p[2].max_time >= Threshold => p \in Ranges(clients_')

(* C10 as stated: right after CleanExpiredReplicatedAndGetMinOpId no       *)
(* client holds a range whose max_time is older than now - retention, and  *)
(* the ranges with max_time within retention are kept.                     *)
C10_NoExpiredRangeLeft ==
    [][IsCall("CleanExpiredReplicatedAndGetMinOpId")
       => /\ \A p \in Ranges(clients_') : p[2].max_time >= Threshold
          /\ RecentKept]_vars

(* C10: CleanExpiredReplicatedAndGetMinOpId erases, per client, the ranges *)
(* that are older than now - retention and have no range within retention  *)
(* before them in min_op_id order; a range older than that behind a range  *)
(* within retention is left, and the ranges within retention are kept.     *)
C10_ExpiredPrefixDropped ==
    [][IsCall("CleanExpiredReplicatedAndGetMinOpId")
       => /\ Ranges(clients_') =
                {p \in Ranges(clients_) :
                    \E y \in clients_[p[1]].replicated :
                        /\ ~OpIdLess(p[2].min_op_id, y.min_op_id)
                        /\ y.max_time >= Threshold}
          /\ RecentKept]_vars

(* A cleaning call has erased an expired range and kept one within         *)
(* retention.                                                              *)
C10_Witness ==
    /\ ret.op = "CleanExpiredReplicatedAndGetMinOpId"
    /\ \E x \in committed : x.dropped
    /\ \E p \in Ranges(clients_) : p[2].max_time >= Threshold
    /\ ret.op_id # OpIdMax

(* The clients whose record the step removes. *)
Evicted == DOMAIN clients_ \ DOMAIN clients_'

(* C11: CleanExpiredReplicatedAndGetMinOpId evicts the record of a client  *)
(* only if its running table and its replicated table have both been       *)
(* empty, without interruption, for at least the retention window up to    *)
(* the call; no other call removes a record.                               *)
C11_EvictedAfterRetention ==
    [][Evicted # {}
       => /\ IsCall("CleanExpiredReplicatedAndGetMinOpId")
          /\ \A c \in Evicted :
                /\ c \in DOMAIN emptied
                /\ now - emptied[c] >= FLAGS_retryable_request_timeout_secs]_vars

(* No request is running, and no DFATAL line has stopped the process. *)
Quiescent == TotalRunning(clients_) = 0 /\ ~dfatal

(* A cleaning call has found no client record left and returned OpId::Max. *)
AllEvicted ==
    /\ clients_ = << >>
    /\ ret.op = "CleanExpiredReplicatedAndGetMinOpId"
    /\ ret.op_id = OpIdMax

(* C12: when the writes have stopped (no Register, Bootstrap or            *)
(* ReplicationFinished any more) and no request is running, while the      *)
(* clock keeps advancing and CleanExpiredReplicatedAndGetMinOpId keeps     *)
(* being polled, then from some point on no client record is left, and the *)
(* polls return OpId::Max.                                                 *)
C12_EventuallyAllEvicted ==
    <>[]Quiescent => (<>[](clients_ = << >>) /\ []<>AllEvicted)

(* The cleaner has evicted the last record, of a client whose request had  *)
(* committed, after the writes stopped.                                    *)
C12_Witness ==
    /\ AllEvicted
    /\ ~Busy
    /\ \E x \in committed : x.dropped

(* The cleaner has just returned an op-id above the one that is followed. *)
Passed ==
    /\ ret.op = "CleanExpiredReplicatedAndGetMinOpId"
    /\ OpIdLess([term |-> 1, index |-> watched], ret.op_id)

(* C13: when the clock keeps advancing and                                 *)
(* CleanExpiredReplicatedAndGetMinOpId keeps being polled, then for every  *)
(* committed op-id the call eventually returns a greater op-id (or         *)
(* OpId::Max), however long requests keep being registered and committed   *)
(* with increasing op-ids and non-decreasing entry times -- unless the     *)
(* process has stopped at a DFATAL line.                                   *)
C13_FloorPassesEveryOpId == (watched # 0) ~> (Passed \/ dfatal)

(* The cleaner returned an op-id above the followed one while the client   *)
(* still has ranges: the floor is the op-id of a later commit.             *)
C13_Witness ==
    /\ watched # 0
    /\ Passed
    /\ ret.op_id # OpIdMax
    /\ \E c \in DOMAIN clients_ : clients_[c].running # {}

(* What MinRunningRequestId does in a step that is a call of it: it        *)
(* answers for the client asked about, NotFound exactly when unknown holds *)
(* of that client and its watermark otherwise, and changes nothing.        *)
Answers(unknown) ==
    IsCall("MinRunningRequestId")
    => /\ (ret'.result = "NotFound") = unknown
       /\ ret'.result # "NotFound"
             => /\ ret'.result = "ok"
                /\ ret'.client_id \in DOMAIN clients_
                /\ ret'.min_running = clients_[ret'.client_id].min_running_request_id
       /\ UNCHANGED <<clients_, now, running_requests_gauge_,
                      replicated_request_ranges_gauge_, dfatal>>

TotalRanges(clients) ==
    Sum([c \in DOMAIN clients |-> Cardinality(clients[c].replicated)], DOMAIN clients)

(* C15: once SetMetricEntity has been called -- it is the first call --    *)
(* and with every committed request carrying its own op-id, after every    *)
(* operation the running_retryable_requests gauge is the number of running *)
(* entries over all clients and the replicated_retryable_request_ranges    *)
(* gauge is the number of ranges over all clients; neither is negative.    *)
C15_GaugesCount ==
    running_requests_gauge_.instantiated
    => /\ replicated_request_ranges_gauge_.instantiated
       /\ running_requests_gauge_.value = TotalRunning(clients_)
       /\ replicated_request_ranges_gauge_.value = TotalRanges(clients_)
       /\ running_requests_gauge_.value >= 0
       /\ replicated_request_ranges_gauge_.value >= 0

(* Under gauges that count, the commit of request 2 has joined the ranges  *)
(* of requests 1 and 3 into one.                                           *)
C15_Witness ==
    /\ running_requests_gauge_.instantiated
    /\ ret.op = "ReplicationFinished"
    /\ ret.request_id = 2
    /\ replicated_request_ranges_gauge_.value = 1
    /\ \E p \in Ranges(clients_) : p[2].first_id = 1 /\ p[2].last_id = 3

(* The record of client_id, the default one when clients holds none. *)
Record(clients, client_id) ==
    IF client_id \in DOMAIN clients THEN clients[client_id] ELSE ClientRetryableRequests

(* The ranges of a record once its watermark has gone from below           *)
(* watermark up to it: those not wholly below it, the first of them cut to *)
(* start at it.                                                            *)
TrimmedBelow(replicated, watermark) ==
    {[x EXCEPT !.first_id = Max(@, watermark)] :
        x \in {y \in replicated : y.last_id >= watermark}}

(* C16: every Register of a write returns exactly one of true, false,      *)
(* Expired and AlreadyPresent.  It leaves the records of the other clients *)
(* alone; in the record of its client -- created if there was none -- it   *)
(* raises the watermark to the one of the message if that is higher and    *)
(* then erases the ranges below it and cuts the range across it.  It adds  *)
(* exactly one running entry, for its request, when it returns true (and   *)
(* increments the running gauge), and none otherwise; when it returns      *)
(* false the round is queued; when it returns Expired or AlreadyPresent    *)
(* the running table with its queued rounds is as it was, so that nothing  *)
(* but the watermark and the ranges below it has changed.                  *)
C16_RegisterOutcomes ==
    [][IsCall("Register") /\ ret'.client_id # Nil
       => LET c == ret'.client_id
              before == Record(clients_, c)
              after == Record(clients_', c)
              watermark == Max(before.min_running_request_id,
                               ret'.min_running_request_id)
              ranges == IF watermark > before.min_running_request_id
                        THEN TrimmedBelow(before.replicated, watermark)
                        ELSE before.replicated
          IN /\ ret'.result \in {"true", "false", "Expired", "AlreadyPresent"}
             /\ DOMAIN clients_' = DOMAIN clients_ \cup {c}
             /\ \A d \in DOMAIN clients_ \ {c} : clients_'[d] = clients_[d]
             /\ after.min_running_request_id = watermark
             /\ after.replicated = ranges
             /\ after.empty_since = before.empty_since
             /\ replicated_request_ranges_gauge_' =
                   IncrementBy(replicated_request_ranges_gauge_,
                               Cardinality(ranges) - Cardinality(before.replicated))
             /\ UNCHANGED <<now, committed, dfatal>>
             /\ ret'.result = "true"
                   => /\ Entry(clients_, c, ret'.request_id) = {}
                      /\ \E t \in 1 .. now :
                            after.running = before.running
                               \cup {RunningRetryableRequest(ret'.request_id, t)}
                      /\ Cardinality(after.running) = Cardinality(before.running) + 1
                      /\ pending' = pending
                      /\ running_requests_gauge_' = IncrementBy(running_requests_gauge_, 1)
             /\ ret'.result = "false"
                   => /\ Cardinality(after.running) = Cardinality(before.running)
                      /\ Len(pending') = Len(pending) + 1
                      /\ running_requests_gauge_' = running_requests_gauge_
             /\ ret'.result \in {"Expired", "AlreadyPresent"}
                   => /\ after.running = before.running
                      /\ pending' = pending
                      /\ running_requests_gauge_' = running_requests_gauge_]_vars

(* A Register has been refused as Expired, having raised the watermark to  *)
(* 2 and cut the range of the committed requests 1 and 2 down to request   *)
(* 2, under gauges that count.                                             *)
C16_Witness ==
    /\ ret.op = "Register"
    /\ ret.result = "Expired"
    /\ ret.min_running = 2
    /\ running_requests_gauge_.instantiated
    /\ Remembered(ret.client_id, 1) # {}
    /\ \E x \in clients_[ret.client_id].replicated : x.first_id = 2 /\ x.last_id >= 2

(* C17: after every operation, in every client record, every range has     *)
(* first_id <= last_id, and of two distinct ranges the one with the        *)
(* smaller last_id ends strictly before the other begins (so no two ranges *)
(* share a last_id or overlap).                                            *)
C17_RangesDisjoint ==
    \A c \in DOMAIN clients_ :
        \A x \in clients_[c].replicated :
            /\ x.first_id <= x.last_id
            /\ \A y \in clients_[c].replicated \ {x} :
                  /\ x.last_id # y.last_id
                  /\ x.last_id < y.last_id => x.last_id < y.first_id

(* The gap between two ranges of a client was filled by a commit and the   *)
(* ranges were joined: a single range covers the ids 1..3.                 *)
C17_Witness ==
    /\ ret.op = "ReplicationFinished"
    /\ ret.result = "OK"
    /\ ret.request_id = 2
    /\ ret.client_id \in DOMAIN clients_
    /\ \E x \in clients_[ret.client_id].replicated :
          /\ x.first_id = 1
          /\ x.last_id = 3
          /\ clients_[ret.client_id].replicated = {x}

(* C18 as stated: after every operation, in every client record, every     *)
(* range has first_id >= the min_running_request_id of the record.         *)
C18_RangesAboveWatermark ==
    \A c \in DOMAIN clients_ :
        \A x \in clients_[c].replicated :
            x.first_id >= clients_[c].min_running_request_id

(* The commits, as the history has them, of the requests of client_id      *)
(* whose ids lie in range.                                                 *)
Members(client_id, range) ==
    {x \in committed : /\ x.client_id = client_id
                        /\ range.first_id <= x.request_id
                        /\ x.request_id <= range.last_id}

(* C19 as stated: after every operation, the min_op_id of every range is   *)
(* the least op-id of the committed requests whose ids lie in [first_id,   *)
(* last_id] now, and min_time <= max_time.                                 *)
C19_MinOpIdOfMembers ==
    ~dfatal
    => \A p \in Ranges(clients_) :
          /\ p[2].min_op_id = OpIdMinOf({x.op_id : x \in Members(p[1], p[2])})
          /\ p[2].min_time <= p[2].max_time

(* C19, amended: after every operation, the min_op_id of every range is at *)
(* most the op-id of every committed request whose id lies in [first_id,   *)
(* last_id] now, there is such a request, and min_op_id is their least     *)
(* op-id when the range begins above the min_running_request_id of its     *)
(* client; a range whose first_id a watermark advance raised keeps the      *)
(* min_op_id it had. In every range min_time <= max_time.                   *)
C19_MinOpIdBelowMembers ==
    ~dfatal
    => \A p \in Ranges(clients_) :
          /\ Members(p[1], p[2]) # {}
          /\ \A x \in Members(p[1], p[2]) :
                 OpIdMin(p[2].min_op_id, x.op_id) = p[2].min_op_id
          /\ p[2].first_id > clients_[p[1]].min_running_request_id
                => p[2].min_op_id = OpIdMinOf({x.op_id : x \in Members(p[1], p[2])})
          /\ p[2].min_time <= p[2].max_time

(* A Register raised the watermark into a range: the range begins at the   *)
(* watermark and its min_op_id is the op-id of a request trimmed away,     *)
(* below the op-ids of the requests it still covers.                       *)
C19_Witness ==
    /\ ret.op = "Register"
    /\ ret.client_id \in DOMAIN clients_
    /\ ~dfatal
    /\ \E x \in clients_[ret.client_id].replicated :
          /\ x.first_id = ret.min_running_request_id
          /\ x.first_id = clients_[ret.client_id].min_running_request_id
          /\ \A y \in Members(ret.client_id, x) : OpIdLess(x.min_op_id, y.op_id)
          /\ \E y \in committed : /\ y.client_id = ret.client_id
                                  /\ y.request_id < x.first_id
                                  /\ y.op_id = x.min_op_id

(* C20: after every operation, in every client record, no request id is    *)
(* both in the running table and covered by a range, and no request id is  *)
(* covered by two ranges.                                                  *)
C20_SingleLocation ==
    \A c \in DOMAIN clients_ :
        /\ \A e \in clients_[c].running :
              \A x \in clients_[c].replicated :
                 ~(x.first_id <= e.request_id /\ e.request_id <= x.last_id)
        /\ \A x \in clients_[c].replicated :
              \A y \in clients_[c].replicated \ {x} :
                 \A id \in x.first_id .. x.last_id :
                    ~(y.first_id <= id /\ id <= y.last_id)

(* A Register admitted a request of a client that has ranges on both sides *)
(* of it: the request is in the running table and in no range.             *)
C20_Witness ==
    /\ ret.op = "Register"
    /\ ret.result = "true"
    /\ ret.client_id \in DOMAIN clients_
    /\ \E e \in clients_[ret.client_id].running : e.request_id = ret.request_id
    /\ \E x \in clients_[ret.client_id].replicated : x.last_id < ret.request_id
    /\ \E x \in clients_[ret.client_id].replicated : x.first_id > ret.request_id

(* A step in which AddReplicated has put a request id into the replicated  *)
(* table: a ReplicationFinished with status OK of a running request, or    *)
(* the Bootstrap of a write, neither of which logged DFATAL.               *)
Added ==
    /\ ~dfatal'
    /\ ret'.client_id \in DOMAIN clients_'
    /\ \/ IsCall("ReplicationFinished") /\ ret'.result = OkStatus
       \/ IsCall("Bootstrap") /\ ret'.result = "void"

(* The ranges AddReplicated of that step found: those of the client before *)
(* the step, below the watermark the step carried cut off.                 *)
RangesFound ==
    IF ret'.client_id \in DOMAIN clients_
    THEN CleanupReplicatedRequests(
             IF ret'.op = "Bootstrap" THEN ret'.min_running_request_id ELSE 0,
             clients_[ret'.client_id]).client.replicated
    ELSE {}

(* The time AddReplicated of that step was given: the entry time of the    *)
(* running request, or the entry time the replay was called with.          *)
TimeAdded ==
    IF ret'.op = "Bootstrap" THEN ret'.entry_time
    ELSE (CHOOSE e \in Entry(clients_, ret'.client_id, ret'.request_id) : TRUE).time

(* The range that covers the request id of that step afterwards. *)
RangeAdded ==
    CHOOSE x \in clients_'[ret'.client_id].replicated :
        x.first_id <= ret'.request_id /\ ret'.request_id <= x.last_id

(* The range the step found ending right before its request id, and the    *)
(* one it found beginning right after, as sets.                            *)
FoundBefore == {x \in RangesFound : x.last_id + 1 = ret'.request_id}

FoundAfter == {x \in RangesFound : x.first_id = ret'.request_id + 1}

(* C21 as stated: whenever AddReplicated grows a range at either end or    *)
(* joins two ranges, the resulting range has max_time - min_time <= the    *)
(* range time limit.                                                       *)
C21_SpanWithinLimit ==
    [][(Added /\ FoundBefore \cup FoundAfter # {} /\ RangeAdded.first_id < RangeAdded.last_id)
         => RangeAdded.max_time - RangeAdded.min_time <= RangeTimeLimit]_vars

(* C21, amended: the range time limit is applied to one side only.  When   *)
(* AddReplicated grows a range at its right end, the time of the request   *)
(* is at most the min_time the range had plus the limit; when it joins two *)
(* ranges, the max_time of the later one, with the time of the request, is *)
(* at most the min_time of the earlier one plus the limit.  Attaching at   *)
(* the left end is never refused.                                          *)
C21_LimitFromMinTime ==
    [][Added =>
        /\ \A p \in FoundBefore :
              (FoundAfter = {} /\ RangeAdded.first_id = p.first_id)
              => TimeAdded <= p.min_time + RangeTimeLimit
        /\ \A p \in FoundBefore : \A n \in FoundAfter :
              RangeAdded.first_id = p.first_id
              => Max(n.max_time, TimeAdded) <= p.min_time + RangeTimeLimit
        /\ \A n \in FoundAfter : RangeAdded.last_id = n.last_id]_vars

(* A range has been grown at its right end by a request one tick younger   *)
(* than its first.                                                         *)
C21_Witness ==
    /\ ret.op = "ReplicationFinished"
    /\ ret.result = OkStatus
    /\ ret.client_id \in DOMAIN clients_
    /\ \E x \in clients_[ret.client_id].replicated :
          /\ x.last_id = ret.request_id
          /\ x.first_id < x.last_id
          /\ x.max_time = x.min_time + RangeTimeLimit
          /\ x.max_time = now

(* C22: after every operation, for every client record, empty_since is the *)
(* unset value whenever the client has a running entry or a replicated     *)
(* range.                                                                  *)
C22_EmptySinceUnsetWhileHolding ==
    \A client_id \in DOMAIN clients_ :
        (clients_[client_id].running # {} \/ clients_[client_id].replicated # {})
        => clients_[client_id].empty_since = UnsetTime

(* The ranges of a client that cover a request id. *)
Covering(clients, client_id, request_id) ==
    IF client_id \in DOMAIN clients
    THEN {x \in clients[client_id].replicated :
            x.first_id <= request_id /\ request_id <= x.last_id}
    ELSE {}

(* The ranges of a client. *)
RangesOf(clients, client_id) ==
    IF client_id \in DOMAIN clients THEN clients[client_id].replicated ELSE {}

(* The running entries of a client. *)
RunningOf(clients, client_id) ==
    IF client_id \in DOMAIN clients THEN clients[client_id].running ELSE {}

(* The Bootstrap of a write whose request is neither running nor in a      *)
(* replicated range.                                                       *)
BootstrapOfNew ==
    /\ IsCall("Bootstrap")
    /\ ret'.request_id # 0
    /\ Entry(clients_, ret'.client_id, ret'.request_id) = {}
    /\ Covering(clients_, ret'.client_id, ret'.request_id) = {}

(* C23: the Bootstrap of a write for (c, r), r being neither running nor   *)
(* replicated, advances the watermark of c from the payload, leaves r      *)
(* covered by exactly one range of c, also when r is below the watermark   *)
(* it brought, and creates no running entry; a Register of r for c in the  *)
(* state it leaves is refused, with Expired when r is below the watermark  *)
(* and with AlreadyPresent otherwise, whatever watermark it carries.       *)
C23_BootstrapRebuilds ==
    [][BootstrapOfNew =>
        LET c == ret'.client_id
            r == ret'.request_id
        IN  /\ ret'.result = "void"
            /\ c \in DOMAIN clients_'
            /\ clients_'[c].min_running_request_id
                  = Max(Watermark(clients_, c), ret'.min_running_request_id)
            /\ Cardinality(Covering(clients_', c, r)) = 1
            /\ clients_'[c].running = RunningOf(clients_, c)
            /\ \A m \in 0 .. MaxRequestId :
                  LET next == RegisterImpl(clients_', WriteMsg(c, r, m, NoOpId), now,
                                           FreshRound)
                  IN  /\ next.result = IF r < Max(clients_'[c].min_running_request_id, m)
                                       THEN "Expired" ELSE "AlreadyPresent"
                      /\ next.clients[c].running = clients_'[c].running]_vars

(* A replayed write brought a watermark above its own request id and is    *)
(* in a range all the same.                                                *)
C23_Witness ==
    /\ ret.op = "Bootstrap"
    /\ ret.result = "void"
    /\ ret.request_id # 0
    /\ ret.request_id < ret.min_running_request_id
    /\ clients_[ret.client_id].min_running_request_id = ret.min_running_request_id
    /\ Covering(clients_, ret.client_id, ret.request_id) # {}

(* The op id AddReplicated of that step was given. *)
OpIdAdded == ret'.op_id

(* By how much the step lowered the ranges gauge, and the number of ranges *)
(* of the client. *)
GaugeDrop ==
    replicated_request_ranges_gauge_.value - replicated_request_ranges_gauge_'.value

(* C24: when request r commits at time t with op id o, no range starts at  *)
(* r + 1 and a range p ends at r - 1 with t <= p.min_time + the range time *)
(* limit, then afterwards p has last_id r, min_time and max_time widened   *)
(* to hold t and min_op_id the smaller of its own and o, every other range *)
(* is as it was, and the number of ranges is the same.                     *)
C24_GrowsRight ==
    [][Added =>
        \A p \in FoundBefore :
          (FoundAfter = {} /\ TimeAdded <= p.min_time + RangeTimeLimit)
          => /\ clients_'[ret'.client_id].replicated
                  = (RangesFound \ {p}) \cup
                    {[first_id |-> p.first_id, last_id |-> ret'.request_id,
                      min_op_id |-> OpIdMin(p.min_op_id, OpIdAdded),
                      min_time |-> Min(p.min_time, TimeAdded),
                      max_time |-> Max(p.max_time, TimeAdded)]}
             /\ Cardinality(clients_'[ret'.client_id].replicated)
                  = Cardinality(RangesFound)]_vars

(* A commit has grown a range to the right and moved its max_time, beside  *)
(* another range of the client.                                            *)
C24_Witness ==
    /\ ret.op = "ReplicationFinished"
    /\ ret.result = OkStatus
    /\ ret.client_id \in DOMAIN clients_
    /\ Cardinality(clients_[ret.client_id].replicated) = 2
    /\ \E x \in clients_[ret.client_id].replicated :
          /\ x.last_id = ret.request_id
          /\ x.first_id < x.last_id
          /\ x.min_time < x.max_time
          /\ x.min_op_id # ret.op_id

(* C25: when request r commits at time t with op id o, a range p ends at   *)
(* r - 1, a range n starts at r + 1 and the time check of TryJoinRanges    *)
(* lets them join, then p and n are replaced by the one range              *)
(* [p.first_id, n.last_id] whose min_op_id is the least of p's, n's and o  *)
(* and whose min_time and max_time span p, n and t; every other range is   *)
(* as it was, the number of ranges is one less, and the ranges gauge, once *)
(* installed, has dropped by as much as the number of ranges.              *)
C25_JoinsAcrossGap ==
    [][Added =>
        \A p \in FoundBefore : \A n \in FoundAfter :
          Max(n.max_time, TimeAdded) <= p.min_time + RangeTimeLimit
          => /\ clients_'[ret'.client_id].replicated
                  = (RangesFound \ {p, n}) \cup
                    {[first_id |-> p.first_id, last_id |-> n.last_id,
                      min_op_id |-> OpIdMin(OpIdMin(p.min_op_id, n.min_op_id), OpIdAdded),
                      min_time |-> Min(Min(p.min_time, n.min_time), TimeAdded),
                      max_time |-> Max(Max(p.max_time, n.max_time), TimeAdded)]}
             /\ Cardinality(clients_'[ret'.client_id].replicated)
                  = Cardinality(RangesFound) - 1
             /\ replicated_request_ranges_gauge_.instantiated
                  => GaugeDrop = Cardinality(RangesOf(clients_, ret'.client_id))
                                 - Cardinality(clients_'[ret'.client_id].replicated)]_vars

(* A commit has closed the gap between two ranges whose times differ: one  *)
(* range [1, 3] is left and the installed gauge reads 1.                   *)
C25_Witness ==
    /\ ret.op = "ReplicationFinished"
    /\ ret.result = OkStatus
    /\ ret.client_id \in DOMAIN clients_
    /\ replicated_request_ranges_gauge_.instantiated
    /\ replicated_request_ranges_gauge_.value = 1
    /\ \E x \in clients_[ret.client_id].replicated :
          /\ x.first_id < ret.request_id
          /\ ret.request_id < x.last_id
          /\ x.min_time < x.max_time

(* The step has joined the range p with the range n. *)
Joined(p, n) == RangeAdded.first_id = p.first_id /\ RangeAdded.last_id = n.last_id

(* The step has left p as it was and attached its request id to n. *)
AttachedLeft(p, n) ==
    clients_'[ret'.client_id].replicated
      = (RangesFound \ {n}) \cup
        {[first_id |-> ret'.request_id, last_id |-> n.last_id,
          min_op_id |-> OpIdMin(n.min_op_id, OpIdAdded),
          min_time |-> Min(n.min_time, TimeAdded),
          max_time |-> Max(n.max_time, TimeAdded)]}

C27_RefusedGrowthInserts ==
    [][Added =>
        \A p \in FoundBefore :
          (FoundAfter = {} /\ TimeAdded > p.min_time + RangeTimeLimit)
          => /\ clients_'[ret'.client_id].replicated
                  = RangesFound \cup
                    {[first_id |-> ret'.request_id, last_id |-> ret'.request_id,
                      min_op_id |-> OpIdAdded,
                      min_time |-> TimeAdded, max_time |-> TimeAdded]}
             /\ p \in clients_'[ret'.client_id].replicated
             /\ Cardinality(clients_'[ret'.client_id].replicated)
                  = Cardinality(RangesFound) + 1]_vars

(* Request 1 committed, and request 2 more than the limit after it: the    *)
(* ranges are (1..1) and (2..2).                                           *)
C27_Witness ==
    /\ ret.op = "ReplicationFinished"
    /\ ret.result = OkStatus
    /\ ret.request_id = 2
    /\ ret.client_id \in DOMAIN clients_
    /\ \E p, x \in clients_[ret.client_id].replicated :
          /\ p.first_id = 1 /\ p.last_id = 1
          /\ x.first_id = 2 /\ x.last_id = 2
          /\ x.min_time > p.min_time + RangeTimeLimit
          /\ x.min_time = x.max_time
    /\ Cardinality(clients_[ret.client_id].replicated) = 2

(* The step found the range p ending right before its request id and left *)
(* it apart from the range that now holds the request id.                  *)
KeptApart(p) == RangeAdded.first_id = ret'.request_id

(* C28 as stated: two consecutive ranges of a client that were kept        *)
(* separate because the range time limit refused to extend or to join      *)
(* satisfy last_id + 1 < next.first_id.                                    *)
C28_GapAfterRefusal ==
    [][Added =>
        \A p \in FoundBefore :
          KeptApart(p) => p.last_id + 1 < RangeAdded.first_id]_vars

(* C28, amended: a range that the range time limit refused to extend or to *)
(* join stays as it was, and the range that holds the request begins right *)
(* after it, last_id + 1 = next.first_id; ranges of a client never         *)
(* overlap, and two of them are adjacent only where the max_time of the    *)
(* later is beyond the min_time of the earlier plus the limit.             *)
C28_AdjacentAfterRefusal ==
    [][/\ Added =>
            \A p \in FoundBefore :
              KeptApart(p) => /\ p \in clients_'[ret'.client_id].replicated
                              /\ p.last_id + 1 = RangeAdded.first_id
                              /\ RangeAdded.max_time > p.min_time + RangeTimeLimit
       /\ \A client_id \in DOMAIN clients_' :
            \A p, n \in clients_'[client_id].replicated :
              p.first_id < n.first_id
              => /\ p.last_id + 1 <= n.first_id
                 /\ p.last_id + 1 = n.first_id
                      => n.max_time > p.min_time + RangeTimeLimit]_vars

(* A join was refused: the range that took the request id begins right     *)
(* after the range it was kept apart from.                                 *)
C28_Witness ==
    /\ ret.op \in {"ReplicationFinished", "Bootstrap"}
    /\ ret.result \in {OkStatus, "void"}
    /\ ret.client_id \in DOMAIN clients_
    /\ \E p, n \in clients_[ret.client_id].replicated :
          /\ p.last_id + 1 = n.first_id
          /\ n.first_id = ret.request_id
          /\ n.last_id > ret.request_id

(* A Register or a Bootstrap of a write. *)
WriteCall ==
    /\ IsCall("Register") \/ IsCall("Bootstrap")
    /\ ret'.request_id # 0

(* The request ids a set of ranges covers. *)
Ids(ranges) == UNION {x.first_id .. x.last_id : x \in ranges}

(* What the watermark the call carried makes of the ranges the client had: *)
(* above the client's watermark, the ranges below it are gone and the      *)
(* range that holds it begins at it; otherwise the ranges are as they were.*)
TrimOf(client_id) ==
    IF ret'.min_running_request_id > Watermark(clients_, client_id)
    THEN TrimmedBelow(RangesOf(clients_, client_id), ret'.min_running_request_id)
    ELSE RangesOf(clients_, client_id)

(* The step has trimmed the record by the watermark it carried and, that   *)
(* apart, has touched nothing but its own request id.                      *)
WatermarkTrimmed ==
    LET c == ret'.client_id
        r == ret'.request_id
    IN  /\ c \in DOMAIN clients_'
        /\ clients_'[c].min_running_request_id
              = Max(Watermark(clients_, c), ret'.min_running_request_id)
        /\ {e \in clients_'[c].running : e.request_id # r}
              = {e \in RunningOf(clients_, c) : e.request_id # r}
        /\ IF ret'.op = "Register"
           THEN clients_'[c].replicated = TrimOf(c)
           ELSE /\ \A x \in TrimOf(c) :
                     (x.last_id + 1 < r \/ r + 1 < x.first_id)
                     => x \in clients_'[c].replicated
                /\ Ids(clients_'[c].replicated) \ {r} = Ids(TrimOf(c)) \ {r}

Finished ==
    /\ ret.op = "ReplicationFinished"
    /\ ret.request_id # 0
    /\ ret.result # "DFATAL"

Absorbed ==
    {x \in RangesFound : RangeAdded.first_id <= x.first_id
                          /\ x.last_id <= RangeAdded.last_id}

(* The least and the greatest of a non-empty set of numbers. *)
Least(S) == CHOOSE x \in S : \A y \in S : x <= y

Greatest(S) == CHOOSE x \in S : \A y \in S : x >= y

(* C31: the time a commit through ReplicationFinished merges into a range  *)
(* is the entry time of the request's first admission.  A Register that    *)
(* admits gives the running entry the entry time it was called with, or    *)
(* the clock's value when that is unset; no step, a deferred duplicate     *)
(* Register included, changes the time of an entry that stays; and the     *)
(* range that holds the request after ReplicationFinished with OK has the  *)
(* times of the ranges it absorbed and of that entry, whatever the clock   *)
(* reads at the finish.                                                    *)
C31_EntryTimeOfFirstAdmission ==
    [][/\ (IsCall("Register") /\ ret'.request_id # 0 /\ ret'.result = "true")
          => \A e \in Entry(clients_', ret'.client_id, ret'.request_id) :
                e.time = IF ret'.entry_time = UnsetTime THEN now
                         ELSE ret'.entry_time
       /\ \A c \in DOMAIN clients_ : \A e \in clients_[c].running :
             \A f \in Entry(clients_', c, e.request_id) : f.time = e.time
       /\ (IsCall("ReplicationFinished") /\ Added)
          => /\ RangeAdded.min_time
                  = Least({TimeAdded} \cup {x.min_time : x \in Absorbed})
             /\ RangeAdded.max_time
                  = Greatest({TimeAdded} \cup {x.max_time : x \in Absorbed})]_vars

(* A request that was retried while it ran has committed after the clock   *)
(* moved on: its duplicate was notified and its range is older than now.   *)
C31_Witness ==
    /\ ret.op = "ReplicationFinished"
    /\ ret.result = OkStatus
    /\ Len(notified) >= 1
    /\ ret.client_id \in DOMAIN clients_
    /\ \E x \in clients_[ret.client_id].replicated :
          /\ x.first_id = ret.request_id
          /\ x.last_id = ret.request_id
          /\ x.max_time < now

(* A ReplicationFinished of a write whose request has no running entry. *)
FinishOfUnknown ==
    /\ IsCall("ReplicationFinished")
    /\ ret'.request_id # 0
    /\ Entry(clients_, ret'.client_id, ret'.request_id) = {}

(* C32: a ReplicationFinished of a write whose (client_id, request_id) has *)
(* no running entry notifies no round and leaves the state of the          *)
(* coordinator as it was, the set of known clients included, so that       *)
(* MinRunningRequestId still returns NotFound for a client unknown before. *)
C32_UnknownFinishChangesNothing ==
    [][FinishOfUnknown =>
        /\ notified' = << >>
        /\ DOMAIN clients_' = DOMAIN clients_
        /\ UNCHANGED <<clients_, now, running_requests_gauge_,
                       replicated_request_ranges_gauge_>>]_vars

(* Request request_id of client_id has been committed, by a                *)
(* ReplicationFinished with OK or by a Bootstrap.                          *)
WasCommitted(client_id, request_id) ==
    \E y \in committed : y.client_id = client_id /\ y.request_id = request_id

(* C33: after every operation every request id that a replicated range of  *)
(* client c covers has been committed for c, and a Register that has       *)
(* returned AlreadyPresent was for a request id that has been committed.   *)
C33_CoveredWasCommitted ==
    /\ \A c \in DOMAIN clients_ : \A x \in clients_[c].replicated :
          \A id \in x.first_id .. x.last_id : WasCommitted(c, id)
    /\ (ret.op = "Register" /\ ret.result = "AlreadyPresent")
          => WasCommitted(ret.client_id, ret.request_id)

(* Register has returned AlreadyPresent for the middle id of a range that  *)
(* holds at least three ids.                                               *)
C33_Witness ==
    /\ ret.op = "Register"
    /\ ret.result = "AlreadyPresent"
    /\ \E x \in clients_[ret.client_id].replicated :
          /\ x.first_id < ret.request_id
          /\ ret.request_id < x.last_id

(* The commits whose request id a range of their client covers. *)
StillCovered(clients) ==
    {y \in committed' : Covering(clients, y.client_id, y.request_id) # {}}

(* C34: after every operation the min_op_id of every replicated range is   *)
(* <= the log op id of every committed request whose id lies in the range, *)
(* and the op id CleanExpiredReplicatedAndGetMinOpId returns is <= the op  *)
(* id of every committed request that a range left by the call covers.     *)
C34_MinOpIdLowerBound ==
    [][/\ \A y \in StillCovered(clients_') :
             \A x \in Covering(clients_', y.client_id, y.request_id) :
                ~OpIdLess(y.op_id, x.min_op_id)
       /\ IsCall("CleanExpiredReplicatedAndGetMinOpId")
          => \A y \in StillCovered(clients_') : ~OpIdLess(y.op_id, ret'.op_id)]_vars

(* A cleaning call has returned the min_op_id of a range of three ids      *)
(* whose first id committed later than another id of the range.            *)
C34_Witness ==
    /\ ret.op = "CleanExpiredReplicatedAndGetMinOpId"
    /\ \E c \in DOMAIN clients_ : \E x \in clients_[c].replicated :
          /\ x.min_op_id = ret.op_id
          /\ x.first_id + 2 <= x.last_id
          /\ \E y \in committed : /\ y.client_id = c
                                  /\ y.request_id = x.first_id
                                  /\ OpIdLess(x.min_op_id, y.op_id)

(* C35: when the requests of each client commit in increasing order of     *)
(* request id with non-decreasing entry times, under one value of the      *)
(* range time limit flag, every replicated range has                       *)
(* max_time <= min_time + that limit after every operation.                *)
C35_SpanBoundInOrder ==
    \A c \in DOMAIN clients_ : \A x \in clients_[c].replicated :
        x.max_time <= x.min_time + FLAGS_retryable_request_range_time_limit_secs

(* In-order commits have filled a range up to the limit and begun the next *)
(* range beside it.                                                        *)
C35_Witness ==
    \E c \in DOMAIN clients_ : \E x, n \in clients_[c].replicated :
        /\ x.first_id < x.last_id
        /\ x.max_time = x.min_time + FLAGS_retryable_request_range_time_limit_secs
        /\ n.first_id = x.last_id + 1

(* The step has put one more running entry into the record of the client  *)
(* whose id the write carried.                                             *)
Recorded ==
    Cardinality(RunningOf(clients_', ret'.sent))
      = Cardinality(RunningOf(clients_, ret'.sent)) + 1

(* C36 as stated: for every client id a write carries, whatever its two    *)
(* halves, a Register that admits the write creates a running entry for    *)
(* it, and a Register of a pair that is running returns false.             *)
C36_EveryWriteRecorded ==
    [][IsCall("Register") =>
        /\ ret'.result = "true" => Recorded
        /\ Entry(clients_, ret'.sent, ret'.request_id) # {}
             => ret'.result = "false"]_vars

(* C36, amended: the same for every client id except the all-zero one.  A  *)
(* write whose client id is all zero is taken for a replicate without a    *)
(* write: Register returns true for it every time and records nothing.     *)
C36_EveryIdentifiedWriteRecorded ==
    [][IsCall("Register") =>
        IF ret'.sent = Nil
        THEN /\ ret'.result = "true"
             /\ UNCHANGED <<clients_, running_requests_gauge_,
                            replicated_request_ranges_gauge_, pending>>
        ELSE /\ ret'.client_id = ret'.sent
             /\ ret'.request_id # 0
             /\ ret'.result = "true"
                  => Recorded /\ Entry(clients_', ret'.sent, ret'.request_id) # {}
             /\ Entry(clients_, ret'.sent, ret'.request_id) # {}
                  => /\ ret'.result = "false"
                     /\ Len(pending') = Len(pending) + 1
             /\ ret'.result # "true"
                  => RunningOf(clients_', ret'.sent) = RunningOf(clients_, ret'.sent)
                     \/ ret'.result = "false"]_vars

(* A retry of a running request of the client whose id has both halves set *)
(* has been deferred while a client with one half set has a request        *)
(* running too and no record exists for the all-zero id.                   *)
C36_Witness ==
    /\ ret.op = "Register"
    /\ ret.sent = ClientC
    /\ ret.result = "false"
    /\ Entry(clients_, ClientC, 1) # {}
    /\ Entry(clients_, ClientA, 1) # {} \/ Entry(clients_, ClientB, 1) # {}
    /\ Nil \notin DOMAIN clients_

(* The step is the ReplicationFinished of request_id of client_id. *)
FinishOf(client_id, request_id) ==
    /\ IsCall("ReplicationFinished")
    /\ ret'.client_id = client_id
    /\ ret'.request_id = request_id

(* C37: a running entry stays in the running table of its client, and the *)
(* client in clients_, through every step except the ReplicationFinished   *)
(* of its own client id and request id; that finish finds the entry,       *)
(* raises no DFATAL and removes it.                                        *)
C37_RunningUntilFinished ==
    [][\A c \in DOMAIN clients_ : \A e \in clients_[c].running :
          IF FinishOf(c, e.request_id)
          THEN /\ Entry(clients_', c, e.request_id) = {}
               /\ dfatal' = dfatal
          ELSE /\ c \in DOMAIN clients_'
               /\ e \in clients_'[c].running
                    \/ /\ IsCall("Register")
                       /\ \E f \in clients_'[c].running :
                             /\ f.request_id = e.request_id
                             /\ f.time = e.time]_vars

(* CleanExpiredReplicatedAndGetMinOpId has returned and has kept a client  *)
(* whose only content is a running request below its watermark, and whose  *)
(* empty_since is older than the retention.                                *)
C37_Witness ==
    /\ ret.op = "CleanExpiredReplicatedAndGetMinOpId"
    /\ ClientA \in DOMAIN clients_
    /\ clients_[ClientA].replicated = {}
    /\ clients_[ClientA].empty_since # UnsetTime
    /\ clients_[ClientA].empty_since
          < now - FLAGS_retryable_request_timeout_secs
    /\ \E e \in clients_[ClientA].running :
          e.request_id < clients_[ClientA].min_running_request_id

(* The request ids of a client that a range with max_time at or after      *)
(* since covers and that its watermark is not above.                       *)
Retained(clients, client_id, since) ==
    {r \in Ids({x \in RangesOf(clients, client_id) : x.max_time >= since}) :
        r >= clients[client_id].min_running_request_id}

(* C38: CleanExpiredReplicatedAndGetMinOpId erases no range whose max_time *)
(* is at or after now - retention; the range that holds a request after    *)
(* its commit has a max_time at or after the entry time of the request; a  *)
(* request id under such a range stays under a range that is not older     *)
(* through every step, unless the watermark of the client is raised above  *)
(* it; and Register of such a request is refused.                          *)
C38_RetainedWithinWindow ==
    [][/\ IsCall("CleanExpiredReplicatedAndGetMinOpId")
          => \A c \in DOMAIN clients_ : \A x \in clients_[c].replicated :
                x.max_time >= now - FLAGS_retryable_request_timeout_secs
                => c \in DOMAIN clients_' /\ x \in clients_'[c].replicated
       /\ Added /\ Covering(clients_', ret'.client_id, ret'.request_id) # {}
                /\ Covering(clients_, ret'.client_id, ret'.request_id) = {}
          => RangeAdded.max_time >= TimeAdded
       /\ \A c \in DOMAIN clients_ : \A x \in clients_[c].replicated :
             x.max_time >= now - FLAGS_retryable_request_timeout_secs
             => \A r \in x.first_id .. x.last_id :
                   /\ c \in DOMAIN clients_'
                   /\ \/ r < clients_'[c].min_running_request_id
                      \/ \E y \in Covering(clients_', c, r) : y.max_time >= x.max_time
       /\ (IsCall("Register") /\ ret'.request_id # 0)
          => (ret'.request_id
                \in Ids({x \in RangesOf(clients_, ret'.client_id) :
                           x.max_time >= now - FLAGS_retryable_request_timeout_secs})
              => ret'.result \in {"AlreadyPresent", "Expired"})]_vars

(* A cleaning call has erased the range of one committed request and has   *)
(* kept the range of another, which is within retention and not below the  *)
(* watermark of its client.                                                *)
C38_Witness ==
    /\ ret.op = "CleanExpiredReplicatedAndGetMinOpId"
    /\ \E x \in committed : x.dropped
    /\ \E x \in committed :
          /\ ~x.dropped
          /\ x.request_id \in Retained(clients_, x.client_id,
                                      now - FLAGS_retryable_request_timeout_secs)

(* The step applies the replicate of the Bootstrap that has just returned  *)
(* a second time.                                                          *)
Reapplied == ret.op = "Bootstrap" /\ ret'.op = "Bootstrap"

(* C39: a second Bootstrap with the same write replicate leaves the        *)
(* records of the clients -- ranges, watermark, running table -- and both  *)
(* gauges as the first left them; and a Bootstrap of a request id that has *)
(* a running entry leaves them as they were before it.                     *)
C39_BootstrapIdempotent ==
    [][/\ Reapplied
          => UNCHANGED <<clients_, running_requests_gauge_,
                         replicated_request_ranges_gauge_>>
       /\ (IsCall("Bootstrap")
              /\ Entry(clients_, ret'.client_id, ret'.request_id) # {})
          => UNCHANGED <<clients_, running_requests_gauge_,
                         replicated_request_ranges_gauge_>>]_vars

(* A replicate whose payload raised the watermark has been applied twice   *)
(* under installed gauges: the range of its request has its op id, and the *)
(* second application found the request replicated.                        *)
C39_Witness ==
    /\ ret.op = "Bootstrap"
    /\ ret.result = "DFATAL"
    /\ Entry(clients_, ret.client_id, ret.request_id) = {}
    /\ \E x \in Covering(clients_, ret.client_id, ret.request_id) :
          x.min_op_id = ret.op_id
    /\ ret.min_running_request_id > 0
    /\ clients_[ret.client_id].min_running_request_id = ret.min_running_request_id
    /\ replicated_request_ranges_gauge_.instantiated
    /\ replicated_request_ranges_gauge_.value > 0

====
